---- MODULE Spec2Model ----
(***************************************************************************)
(* Document review view (web/src/pages/OCRResult.tsx) with its two child   *)
(* editors (ExtractedInfoDisplay, OcrResultEditor): React state, the       *)
(* closures each render creates, the poll interval timers, the delayed     *)
(* callbacks and the requests in flight.                                   *)
(*                                                                         *)
(* JavaScript values are tagged records [t, v]; array indices are 0-based  *)
(* as in the program (At reads them); strings that the program inspects    *)
(* are sequences of one-character strings.                                 *)
(***************************************************************************)
EXTENDS Integers, Sequences, FiniteSets, Bags, TLC

(* ------------------------------ bounds --------------------------------- *)
\* closures (render scopes) that can be referenced at once, besides scope 0
MaxScopes == 3
\* interval timers that can be live at once
MaxTimers == 2
\* requests / delayed callbacks that can be in flight at once
MaxTasks == 2
\* ticks explored per timer in the general polling specification
PollTicks == 2
\* save clicks (field values, token text) explored in one behaviour
MaxSaves == 1
\* rows a list field is grown to
MaxRows == 1
\* rows the table of the row-editing specification is grown to
MaxTableRows == 2
\* job starts (startExtraction, rerunOcr) explored in one behaviour
MaxStarts == 2

(* --------------------------- program constants ------------------------- *)
MAX_POLLING_ATTEMPTS == 20

Null == -1

Statuses == {"pending", "processing", "completed", "failed"}

(* --------------------------- JavaScript values ------------------------- *)
EmptyObj == [k \in {} |-> 0]

JUndef == [t |-> "undefined", v |-> <<>>]

JStr(s) == [t |-> "string", v |-> s]

JArr(a) == [t |-> "array", v |-> a]

JNum(n) == [t |-> "number", v |-> n]

\* an array of numbers
Nums(ns) == JArr([i \in 1..Len(ns) |-> JNum(ns[i])])

JObj(o) == [t |-> "object", v |-> o]

\* JavaScript truthiness of a value (the empty string is falsy)
Truthy(x) ==
  \/ x.t \in {"array", "object"}
  \/ (x.t = "string" /\ x.v # <<>>)
  \/ (x.t = "number" /\ x.v # 0)

\* obj[key] for a property name key
Prop(x, key) ==
  IF x.t = "object" /\ key \in DOMAIN x.v THEN x.v[key] ELSE JUndef

\* seq[i] for a 0-based index
InRange(seq, i) == i \in 0..(Len(seq) - 1)

At(seq, i) == seq[i + 1]

Min(S) == CHOOSE x \in S : \A y \in S : x <= y

(* ------------------------------- strings ------------------------------- *)
Whitespace == {" "}

ToLowerChar(c) ==
  CASE c = "A" -> "a" [] c = "C" -> "c" [] c = "M" -> "m" [] c = "E" -> "e"
    [] OTHER -> c

\* s.replace(/\s+/g, "").toLowerCase()
Normalize(s) ==
  LET stripped == SelectSeq(s, LAMBDA c : c \notin Whitespace)
  IN  [i \in 1..Len(stripped) |-> ToLowerChar(stripped[i])]

\* a.includes(b)
Includes(a, b) ==
  \E i \in 0..(Len(a) - Len(b)) : SubSeq(a, i + 1, i + Len(b)) = b

(* ------------------------------- tokens -------------------------------- *)
\* OcrWord: content, page (0 models an absent page number), points
Word(c, p, g) == [content |-> c, page |-> p, points |-> g]

NoPoints == [def |-> FALSE, pts |-> <<>>]

Poly(x, y) == [def |-> TRUE,
               pts |-> << <<x, y>>, <<x + 2, y>>, <<x + 2, y + 1>>, <<x, y + 1>> >>]

\* JSON.stringify(points): undefined for absent points, otherwise injective
JSONstringify(points) ==
  IF points.def THEN [undef |-> FALSE, text |-> points.pts]
  ELSE [undef |-> TRUE, text |-> <<>>]

\* word.page || 1
PageOr1(w) == IF w.page = 0 THEN 1 ELSE w.page

(* ---------------------------- bounding boxes --------------------------- *)
Max(S) == CHOOSE x \in S : \A y \in S : x >= y

\* the words updateBoundingBoxesForCurrentPage makes boxes of
BoxPageWords(ocrWords, isMultipage, pageIndex) ==
  IF ~isMultipage THEN ocrWords
  ELSE SelectSeq(ocrWords, LAMBDA word : word.page = pageIndex + 1)

\* a faulty variant of BoxOf: three vertices are taken as a drawable geometry
BoxOf_ThreeVertices(word, index) ==
  IF ~word.points.def \/ Len(word.points.pts) < 3
  THEN [id |-> index, top |-> 0, left |-> 0, width |-> 0, height |-> 0,
        text |-> word.content]
  ELSE LET xs == {word.points.pts[k][1] : k \in 1..Len(word.points.pts)}
           ys == {word.points.pts[k][2] : k \in 1..Len(word.points.pts)}
       IN  [id |-> index, top |-> Min(ys), left |-> Min(xs),
            width |-> Max(xs) - Min(xs), height |-> Max(ys) - Min(ys),
            text |-> word.content]

\* the box the map callback of updateBoundingBoxesForCurrentPage makes of one word
BoxOf(word, index) ==
  IF ~word.points.def \/ Len(word.points.pts) < 4
  THEN [id |-> index, top |-> 0, left |-> 0, width |-> 0, height |-> 0,
        text |-> word.content]
  ELSE LET xs == {word.points.pts[k][1] : k \in 1..Len(word.points.pts)}
           ys == {word.points.pts[k][2] : k \in 1..Len(word.points.pts)}
       IN  [id |-> index, top |-> Min(ys), left |-> Min(xs),
            width |-> Max(xs) - Min(xs), height |-> Max(ys) - Min(ys),
            text |-> word.content]

\* updateBoundingBoxesForCurrentPage(pageIndex): the boxes it passes to setBoundingBoxes
updateBoundingBoxesForCurrentPage(ocrWords, isMultipage, pageIndex) ==
  LET currentPageWords == BoxPageWords(ocrWords, isMultipage, pageIndex)
  IN  [k \in 1..Len(currentPageWords) |-> BoxOf(currentPageWords[k], k - 1)]

\* a faulty variant of BoxesEffect: the effect depends on the tokens alone
BoxesEffect_TokensOnly(s, prev) ==
  IF /\ s.ocrWords # prev.ocrWords
     /\ Len(s.ocrWords) > 0
  THEN [s EXCEPT !.boundingBoxes =
          updateBoundingBoxesForCurrentPage(s.ocrWords, s.isMultipage, s.currentPageIndex)]
  ELSE s

\* the effect of lines 256-265, run after a render whose ocrWords,
\* currentPageIndex or isMultipage differ from those of the render before (prev):
\* with tokens present the boxes are those of the page shown
BoxesEffect(s, prev) ==
  IF /\ <<s.ocrWords, s.currentPageIndex, s.isMultipage>>
          # <<prev.ocrWords, prev.currentPageIndex, prev.isMultipage>>
     /\ Len(s.ocrWords) > 0
  THEN [s EXCEPT !.boundingBoxes =
          updateBoundingBoxesForCurrentPage(s.ocrWords, s.isMultipage, s.currentPageIndex)]
  ELSE s

(* ---------------------------- field schema ----------------------------- *)
\* Field of types/app-schema.ts: fields / items are optional
StringField(n) ==
  [name |-> n, type |-> "string", hasFields |-> FALSE, fields |-> <<>>,
   hasItems |-> FALSE, itemsType |-> "", itemsHasFields |-> FALSE, itemsFields |-> <<>>]

OtherField(n, ty) == [StringField(n) EXCEPT !.type = ty]

MapField(n, subs) ==
  [StringField(n) EXCEPT !.type = "map", !.hasFields = TRUE, !.fields = subs]

ListOfMapField(n, cols) ==
  [StringField(n) EXCEPT !.type = "list", !.hasItems = TRUE, !.itemsType = "map",
                         !.itemsHasFields = TRUE, !.itemsFields = cols]

ListOfStringField(n) ==
  [StringField(n) EXCEPT !.type = "list", !.hasItems = TRUE, !.itemsType = "string"]

Range(seq) == {seq[i] : i \in 1..Len(seq)}

(* ------------------------- heuristic mapping --------------------------- *)
\* findMatchingIndices(value): value is the JavaScript value passed in
findMatchingIndices(value, ocrWords) ==
  IF ~Truthy(value) \/ value.t # "string" \/ Len(ocrWords) = 0 THEN Nums(<<>>)
  ELSE LET normalizedValue == Normalize(value.v)
           marked == [i \in 1..Len(ocrWords) |->
                        IF Includes(Normalize(ocrWords[i].content), normalizedValue)
                        THEN i - 1 ELSE -1]
       IN  Nums(SelectSeq(marked, LAMBDA x : x # -1))

\* the entry generateSimpleMapping writes for one field of appFields
SimpleMappingEntry(field, extractedInfo, ocrWords) ==
  IF field.type = "string" THEN Nums(<<>>)
  ELSE IF field.type = "map" /\ field.hasFields
    THEN JObj([sub \in Range(field.fields) |-> Nums(<<>>)])
  ELSE IF field.type = "list" /\ field.hasItems
    THEN IF field.itemsType = "map" /\ field.itemsHasFields
         THEN LET listData == Prop(extractedInfo, field.name)
              IN  IF listData.t = "array" /\ Len(listData.v) > 0
                  THEN JArr([r \in 1..Len(listData.v) |->
                               JObj([c \in Range(field.itemsFields) |-> Nums(<<>>)])])
                  ELSE Nums(<<>>)
         ELSE Nums(<<>>)
  ELSE LET fieldValue == Prop(extractedInfo, field.name)
       IN  IF Truthy(fieldValue) /\ fieldValue.t = "string"
           THEN findMatchingIndices(fieldValue, ocrWords)
           ELSE Nums(<<>>)

\* generateSimpleMapping(): appFields, extractedInfo and ocrWords are the values
\* of the render whose closure runs it; a later field of the same name wins
generateSimpleMapping(appFields, extractedInfo, ocrWords) ==
  LET names == {appFields[i].name : i \in 1..Len(appFields)}
      last(n) == CHOOSE i \in 1..Len(appFields) :
                   /\ appFields[i].name = n
                   /\ \A j \in (i + 1)..Len(appFields) : appFields[j].name # n
  IN  JObj([n \in names |-> SimpleMappingEntry(appFields[last(n)], extractedInfo, ocrWords)])

(* ------------------------- highlight resolution ------------------------ *)
RECURSIVE getNestedValue(_, _)
\* getNestedValue(obj, path): path is the list of keys path.split('.') yields
getNestedValue(obj, path) ==
  IF path = <<>> THEN obj
  ELSE LET next == IF Truthy(obj) /\ Prop(obj, Head(path)) # JUndef
                   THEN Prop(obj, Head(path)) ELSE JUndef
       IN  getNestedValue(next, Tail(path))

\* a faulty variant of WordIndicesAt: a missing entry defaults to the first token
WordIndicesAt_DefaultFirst(mapping, path) ==
  LET got == getNestedValue(mapping, path)
  IN  IF Truthy(got) THEN got ELSE Nums(<<0>>)

\* getNestedValue(mapping, fieldPath) || []
WordIndicesAt(mapping, path) ==
  LET got == getNestedValue(mapping, path)
  IN  IF Truthy(got) THEN got ELSE Nums(<<>>)

\* ocrWords[index] is defined: index is a number that indexes ocrWords
IsWordIndex(index, ocrWords) == index.t = "number" /\ InRange(ocrWords, index.v)

\* wordIndices is a non-empty array and ocrWords[wordIndices[0]] is defined
ResolvesToWord(wordIndices, ocrWords) ==
  /\ wordIndices.t = "array"
  /\ Len(wordIndices.v) > 0
  /\ IsWordIndex(wordIndices.v[1], ocrWords)

\* word.page === targetPage || (!word.page && targetPage === 1)
OnTargetPage(word, targetPage) ==
  word.page = targetPage \/ (word.page = 0 /\ targetPage = 1)

\* the per-page list highlightWordsOnCurrentPage / highlightTableCellOnPage search
HighlightPageWords(ocrWords, isMultipage, targetPage) ==
  IF isMultipage THEN SelectSeq(ocrWords, LAMBDA w : OnTargetPage(w, targetPage))
  ELSE ocrWords

SameWord(a, b) ==
  a.content = b.content /\ JSONstringify(a.points) = JSONstringify(b.points)

\* a faulty variant of FindIndex: the last match instead of the first
FindIndex_Last(currentPageWords, word) ==
  IF \E i \in 1..Len(currentPageWords) : SameWord(currentPageWords[i], word)
  THEN (CHOOSE i \in 1..Len(currentPageWords) :
          /\ SameWord(currentPageWords[i], word)
          /\ \A j \in (i + 1)..Len(currentPageWords) : ~SameWord(currentPageWords[j], word)) - 1
  ELSE -1

\* currentPageWords.findIndex(w => w.content === word.content &&
\*   JSON.stringify(w.points) === JSON.stringify(word.points)): the first match, or -1
FindIndex(currentPageWords, word) ==
  IF \E i \in 1..Len(currentPageWords) : SameWord(currentPageWords[i], word)
  THEN Min({i \in 1..Len(currentPageWords) : SameWord(currentPageWords[i], word)}) - 1
  ELSE -1

\* highlightWordsOnCurrentPage(fieldPath, targetPage) in the closure cl:
\* the index it passes to setSelectedIndex, or Null when it selects nothing
highlightWordsOnCurrentPage(cl, fieldPath, targetPage) ==
  LET got == WordIndicesAt(cl.mapping, fieldPath)
      wordIndices == IF got.t = "array" THEN got.v ELSE <<>>
      currentPageWordIndices ==
        SelectSeq(wordIndices, LAMBDA index :
                    IsWordIndex(index, cl.ocrWords)
                    /\ OnTargetPage(At(cl.ocrWords, index.v), targetPage))
      currentPageWords == HighlightPageWords(cl.ocrWords, cl.isMultipage, targetPage)
      rel(globalIndex) ==
        FindIndex(currentPageWords, At(cl.ocrWords, globalIndex.v))
      relativeIndices ==
        SelectSeq([k \in 1..Len(currentPageWordIndices) |-> rel(currentPageWordIndices[k])],
                  LAMBDA x : x # -1)
  IN  IF Len(currentPageWordIndices) = 0 \/ Len(relativeIndices) = 0 THEN Null
      ELSE relativeIndices[1]

(* ------------------------------- state --------------------------------- *)
VARIABLES
  st,       \* the React state of OcrResult (one record, fields named as in the source)
  mounted,  \* whether OcrResult is mounted
  scope,    \* the closure scope of the latest render
  scopes,   \* per scope: its statusCheckTimer binding (sct) and the state it closed over (s)
  timers,   \* the interval timers: live, owning scope, kind, ticks fired
  tasks,    \* requests awaiting their response and delayed callbacks awaiting their delay:
            \* kind k, closure sid, timer tid, page argument p, data d
  srv,      \* what the backend holds for the document, and the kind of job last started
  eid,      \* state of ExtractedInfoDisplay: editMode, editedInfo, originalInfo
  ore,      \* state of OcrResultEditor: editMode, editedResults, originalResults
  log,      \* history: how many job starts and save clicks the behaviour has used,
            \* and the latest highlight where a specification notes it
  cap       \* ticks explored per timer (fixed by the specification's initial state)

vars == <<st, mounted, scope, scopes, timers, tasks, srv, eid, ore, log, cap>>

\* useState initial values, OCRResult.tsx lines 35-55 and 71
InitState ==
  [loading |-> TRUE, imageSrc |-> "", imageUrls |-> <<>>, currentPageIndex |-> 0,
   totalPages |-> 1, isMultipage |-> FALSE, ocrWords |-> <<>>, boundingBoxes |-> <<>>,
   selectedIndex |-> Null,
   extractionStatus |-> "pending", extractedInfo |-> JObj(EmptyObj), appFields |-> <<>>,
   mapping |-> JObj(EmptyObj), pollingAttemptCount |-> 0, activeView |-> "extraction",
   isRerunning |-> FALSE]

\* APP_CONFIG.enableOcr of the deployment under study
isOcrEnabled == TRUE

ScopeIds == 0..MaxScopes

TimerIds == 1..MaxTimers

\* let statusCheckTimer = null, re-created by every render
DeadScope == [sct |-> 0, s |-> InitState]

DeadTimer == [live |-> FALSE, sid |-> 0, kind |-> "poll", n |-> 0]

Idle == [k |-> "idle", sid |-> 0, tid |-> 0, p |-> 0, d |-> JUndef]

\* the bag of tasks in flight: bounded, and with one more / one fewer
HasFreeTask == BagCardinality(tasks) < MaxTasks

Put(bag, task) == bag (+) SetToBag({task})

Drop(task) == tasks (-) SetToBag({task})

ScopesOf(bag) == {x.sid : x \in BagToSet(bag)}

\* timer ids the runtime may hand out: not live and held by no binding
FreeTimers(tm, sc) ==
  {t \in TimerIds : ~tm[t].live /\ \A i \in ScopeIds : sc[i].sct # t}

\* clearInterval(id); clearing null does nothing
clearInterval(tm, id) == IF id = 0 THEN tm ELSE [tm EXCEPT ![id] = DeadTimer]

\* if (statusCheckTimer) { clearInterval(statusCheckTimer); statusCheckTimer = null; }
\* run in the closure of scope sid
ClearBinding(sc, sid) == [sc EXCEPT ![sid].sct = 0]

\* ExtractedInfoDisplay is rendered (OCRResult.tsx line 934-991)
EidVisible(s) ==
  ~s.loading /\ s.activeView = "extraction" /\ s.extractionStatus = "completed"

\* OcrResultEditor is rendered (OCRResult.tsx line 938-950)
OreVisible(s) ==
  ~s.loading /\ s.activeView = "ocr" /\ isOcrEnabled /\ Len(s.ocrWords) > 0

\* ExtractedInfoDisplay after its effect (part_004 lines 24-33): outside edit mode,
\* and when it is mounted afresh, both buffers are the extractedInfo prop
EidAfterEffects(e, s) ==
  IF EidVisible(s) /\ e.editMode THEN e
  ELSE [editMode |-> FALSE, editedInfo |-> s.extractedInfo, originalInfo |-> s.extractedInfo]

\* OcrResultEditor after its effect (OcrResultEditor.tsx lines 20-21, 42-47)
OreAfterEffects(o, s) ==
  IF OreVisible(s) /\ o.editMode THEN o
  ELSE [editMode |-> FALSE, editedResults |-> s.ocrWords, originalResults |-> s.ocrWords]

\* The end of every handler step: React commits the state the step set (nothing
\* when the component is unmounted) and runs the effect that recomputes the
\* boxes, re-renders when a setter changed something
\* (force: a setter was given a fresh object or an unmodelled state such as the
\* toast changed), and the new render gets a fresh scope with statusCheckTimer
\* = null. Scopes no closure refers to any more are dropped.
Finish(newSt0, sc1, tm1, tk1, force, eid1, ore1) ==
  LET newSt == IF mounted THEN BoxesEffect(newSt0, st) ELSE st
      changed == mounted /\ (force \/ newSt # st)
      refs == {0} \cup {tm1[t].sid : t \in {u \in TimerIds : tm1[u].live}}
                  \cup ScopesOf(tk1)
      free == {i \in 1..MaxScopes : i \notin refs}
      newScope == IF changed THEN Min(free) ELSE scope
      keep == refs \cup {newScope}
  IN  /\ changed => free # {}
      /\ st' = newSt
      /\ scope' = newScope
      /\ scopes' = [i \in ScopeIds |->
                      IF changed /\ i = newScope THEN [sct |-> 0, s |-> newSt]
                      ELSE IF i \in keep THEN sc1[i] ELSE DeadScope]
      /\ timers' = tm1
      /\ tasks' = tk1
      /\ eid' = IF mounted THEN EidAfterEffects(eid1, newSt) ELSE eid
      /\ ore' = IF mounted THEN OreAfterEffects(ore1, newSt) ELSE ore

(* ------------------------------ backend -------------------------------- *)
\* GET /ocr/extract/{id}: the stored status, schema, values and mapping
ExtractResponse ==
  [err |-> FALSE, status |-> srv.status, fields |-> srv.fields, info |-> srv.info,
   hasMapping |-> srv.hasMapping, mapping |-> srv.mapping]

\* the request failed (api.get rejects)
ErrorResponse ==
  [err |-> TRUE, status |-> "pending", fields |-> <<>>, info |-> JObj(EmptyObj),
   hasMapping |-> FALSE, mapping |-> JObj(EmptyObj)]

ExtractResponses == {ExtractResponse, ErrorResponse}

\* the token list a new OCR run stores: a token the previous run missed comes
\* first, so every index designates another token than before
ReOcr(words) ==
  LET found == [content |-> <<"r">>, page |-> 1,
                points |-> [def |-> TRUE,
                            pts |-> << <<9, 9>>, <<11, 9>>, <<11, 10>>, <<9, 10>> >>]]
  IN  IF words # <<>> /\ words[1] = found THEN words ELSE <<found>> \o words

\* a running job ends; a completed OCR job replaces the stored tokens
SrvFinish ==
  /\ srv.status = "processing"
  /\ \E r \in {"completed", "failed"} :
       srv' = [srv EXCEPT !.status = r,
                          !.words = IF r = "completed" /\ srv.job = "ocr"
                                    THEN ReOcr(@) ELSE @]
  /\ UNCHANGED <<st, mounted, scope, scopes, timers, tasks, eid, ore, log, cap>>

(* ----------------------- fetchExtractionInfo --------------------------- *)
\* a faulty variant of fetchExtractionInfo: a completed extraction also goes
\* back to the first page
fetchExtractionInfo_ResetsPage(s, cl, resp) ==
  IF resp.err THEN s
  ELSE IF resp.status = "completed"
    THEN [s EXCEPT !.extractionStatus = "completed",
                   !.appFields = resp.fields,
                   !.extractedInfo = resp.info,
                   !.mapping = resp.mapping,
                   !.currentPageIndex = 0]
  ELSE IF resp.status = "failed" THEN [s EXCEPT !.extractionStatus = "failed"]
  ELSE [s EXCEPT !.extractionStatus = "processing"]

\* the state fetchExtractionInfo leaves, run in a closure that closed over cl
fetchExtractionInfo(s, cl, resp) ==
  IF resp.err THEN s
  ELSE IF resp.status = "completed"
    THEN [s EXCEPT !.extractionStatus = "completed",
                   !.appFields = resp.fields,
                   !.extractedInfo = resp.info,
                   !.mapping = IF resp.hasMapping THEN resp.mapping
                               ELSE generateSimpleMapping(cl.appFields, cl.extractedInfo,
                                                          cl.ocrWords)]
  ELSE IF resp.status = "failed" THEN [s EXCEPT !.extractionStatus = "failed"]
  ELSE [s EXCEPT !.extractionStatus = "processing"]

\* fetchExtractionInfo stops the timer its closure's statusCheckTimer holds
FetchStops(resp) == ~resp.err /\ resp.status = "completed"

(* ------------------------------ polling -------------------------------- *)
\* startExtraction can be invoked: the retry / start button of
\* ExtractionStatusDisplay or the re-extract button of OcrResultEditor is shown
CanStartExtraction ==
  /\ mounted
  /\ ~st.loading
  /\ \/ st.activeView = "extraction" /\ st.extractionStatus \notin {"completed", "processing"}
     \/ OreVisible(st) /\ ~ore.editMode

\* startExtraction up to its await of the POST
StartExtractionClick ==
  /\ CanStartExtraction
  /\ HasFreeTask
  /\ log.starts < MaxStarts
  /\ log' = [log EXCEPT !.starts = @ + 1]
  /\ Finish([st EXCEPT !.extractionStatus = "processing", !.pollingAttemptCount = 0],
            scopes, timers,
            Put(tasks, [Idle EXCEPT !.k = "startExtraction", !.sid = scope]),
            FALSE, eid, ore)
  /\ UNCHANGED <<mounted, srv, cap>>

\* startPolling() in the closure of scope sid: the timer table and the bindings after it
startPolling(sid) ==
  LET tm0 == clearInterval(timers, scopes[sid].sct)
      sc0 == ClearBinding(scopes, sid)
      free == FreeTimers(tm0, sc0)
      t == Min(free)
  IN  [ok |-> free # {},
       tm |-> IF free = {} THEN tm0
              ELSE [tm0 EXCEPT ![t] = [live |-> TRUE, sid |-> sid, kind |-> "poll", n |-> 0]],
       sc |-> IF free = {} THEN sc0 ELSE [sc0 EXCEPT ![sid].sct = t]]

\* startExtraction after the POST answered with r: status "success", another
\* status ("refused"), or the request failed ("error")
StartExtractionAnswered(i, r) ==
  /\ i.k = "startExtraction"
  /\ LET tk1 == Drop(i)
         sp == startPolling(i.sid)
     IN  IF r = "success"
         THEN /\ sp.ok
              /\ Finish([st EXCEPT !.activeView = "extraction"], sp.sc, sp.tm, tk1,
                        FALSE, eid, ore)
              /\ srv' = [srv EXCEPT !.status = "processing", !.job = "extraction"]
         ELSE /\ Finish([st EXCEPT !.extractionStatus = "failed"], scopes, timers, tk1,
                        FALSE, eid, ore)
              /\ UNCHANGED srv
  /\ UNCHANGED <<mounted, log, cap>>

StartExtractionDone(i) ==
  \E r \in {"success", "refused", "error"} : StartExtractionAnswered(i, r)

\* rerunOcr up to its await of the POST
RerunOcrClick ==
  /\ mounted
  /\ ~st.loading
  /\ isOcrEnabled
  /\ ~st.isRerunning
  /\ HasFreeTask
  /\ log.starts < MaxStarts
  /\ log' = [log EXCEPT !.starts = @ + 1]
  /\ Finish([st EXCEPT !.isRerunning = TRUE], scopes, timers,
            Put(tasks, [Idle EXCEPT !.k = "rerunOcr", !.sid = scope]),
            FALSE, eid, ore)
  /\ UNCHANGED <<mounted, srv, cap>>

\* rerunOcr after the POST answered: the new timer overwrites statusCheckTimer
RerunOcrAnswered(i, r) ==
  /\ i.k = "rerunOcr"
  /\ LET tk1 == Drop(i)
         sid == i.sid
         free == FreeTimers(timers, [scopes EXCEPT ![sid].sct = 0])
         t == Min(free)
     IN  IF r = "ok"
         THEN /\ free # {}
              /\ Finish([st EXCEPT !.extractionStatus = "processing",
                                   !.pollingAttemptCount = 0,
                                   !.isRerunning = FALSE],
                        [scopes EXCEPT ![sid].sct = t],
                        [timers EXCEPT ![t] = [live |-> TRUE, sid |-> sid,
                                               kind |-> "rerun", n |-> 0]],
                        tk1, TRUE, eid, ore)
              /\ srv' = [srv EXCEPT !.status = "processing", !.job = "ocr"]
         ELSE /\ Finish([st EXCEPT !.isRerunning = FALSE], scopes, timers, tk1,
                        TRUE, eid, ore)
              /\ UNCHANGED srv
  /\ UNCHANGED <<mounted, log, cap>>

RerunOcrDone(i) == \E r \in {"ok", "error"} : RerunOcrAnswered(i, r)

\* an interval fires: the callback up to the await inside checkExtractionStatus
Tick(t) ==
  /\ timers[t].live
  /\ timers[t].n < cap
  /\ HasFreeTask
  /\ LET tm1 == [timers EXCEPT ![t].n = @ + 1]
         task == [Idle EXCEPT !.k = timers[t].kind, !.sid = timers[t].sid, !.tid = t,
                              !.d = JStr(<<"status">>)]
         tk1 == Put(tasks, task)
     IN  IF timers[t].kind = "poll"
         THEN Finish([st EXCEPT !.pollingAttemptCount = @ + 1], scopes, tm1, tk1,
                     FALSE, eid, ore)
         ELSE Finish(st, scopes, tm1, tk1, FALSE, eid, ore)
  /\ UNCHANGED <<mounted, srv, log, cap>>

\* what follows `await checkExtractionStatus()` when it returned normally, in
\* the interval callback of kind `kind` whose closure is scope sid
AfterCheck(kind, sid, s, sc, tm) ==
  IF kind = "poll"
  THEN IF /\ scopes[sid].s.pollingAttemptCount >= MAX_POLLING_ATTEMPTS
          /\ scopes[sid].s.extractionStatus = "processing"
       THEN [s |-> s, sc |-> ClearBinding(sc, sid), tm |-> clearInterval(tm, sc[sid].sct)]
       ELSE [s |-> s, sc |-> sc, tm |-> tm]
  ELSE [s |-> [s EXCEPT !.pollingAttemptCount = @ + 1], sc |-> sc, tm |-> tm]

\* what the callback's catch does when checkExtractionStatus threw
AfterThrow(kind, sid, s, sc, tm) ==
  IF kind = "poll" /\ scopes[sid].s.pollingAttemptCount >= MAX_POLLING_ATTEMPTS
  THEN [s |-> [s EXCEPT !.extractionStatus = "failed"],
        sc |-> ClearBinding(sc, sid), tm |-> clearInterval(tm, sc[sid].sct)]
  ELSE [s |-> s, sc |-> sc, tm |-> tm]

\* checkExtractionStatus after GET /ocr/extract/status answered with status
\* ("error": the request failed)
TickStatusAnswered(i, status) ==
  /\ i.k \in {"poll", "rerun"}
  /\ i.d = JStr(<<"status">>)
  /\ LET kind == i.k
         sid == i.sid
         tk1 == Drop(i)
     IN  IF status = "error"
         THEN LET a == AfterThrow(kind, sid, st, scopes, timers)
              IN  Finish(a.s, a.sc, a.tm, tk1, FALSE, eid, ore)
         ELSE IF status = "completed"
         THEN Finish([st EXCEPT !.extractionStatus = "completed"], scopes, timers,
                     Put(Drop(i), [i EXCEPT !.d = JStr(<<"fetch">>)]), FALSE, eid, ore)
         ELSE IF status = "failed"
         THEN LET a == AfterCheck(kind, sid, [st EXCEPT !.extractionStatus = "failed"],
                                  ClearBinding(scopes, sid),
                                  clearInterval(timers, scopes[sid].sct))
              IN  Finish(a.s, a.sc, a.tm, tk1, FALSE, eid, ore)
         ELSE LET a == AfterCheck(kind, sid, [st EXCEPT !.extractionStatus = "processing"],
                                  scopes, timers)
              IN  Finish(a.s, a.sc, a.tm, tk1, FALSE, eid, ore)
  /\ UNCHANGED <<mounted, srv, log, cap>>

TickStatusDone(i) == \E status \in {srv.status, "error"} : TickStatusAnswered(i, status)

\* checkExtractionStatus after its `await fetchExtractionInfo()` (status completed)
TickFetchAnswered(i, resp) ==
  /\ i.k \in {"poll", "rerun"}
  /\ i.d = JStr(<<"fetch">>)
  /\ LET kind == i.k
         sid == i.sid
         s1 == fetchExtractionInfo(st, scopes[sid].s, resp)
         a == AfterCheck(kind, sid, s1, ClearBinding(scopes, sid),
                         clearInterval(timers, scopes[sid].sct))
     IN  Finish(a.s, a.sc, a.tm, Drop(i), FetchStops(resp), eid, ore)
  /\ UNCHANGED <<mounted, srv, log, cap>>

TickFetchDone(i) == \E resp \in ExtractResponses : TickFetchAnswered(i, resp)

(* ------------------------- mount and unmount --------------------------- *)
\* imageUrls[i]?.url || ""
UrlAt(imageUrls, i) == IF InRange(imageUrls, i) THEN At(imageUrls, i) ELSE ""

PageUrl(p) == CASE p = 1 -> "url1" [] p = 2 -> "url2" [] OTHER -> "url3"

\* fetchOcrResult after GET /ocr/result answered
MountOcrAnswered(i, r) ==
  /\ i.k = "mount.ocr"
  /\ IF r = "ok"
     THEN Finish(st, scopes, timers,
                 Put(Drop(i), [Idle EXCEPT !.k = "mount.url", !.d = JArr(srv.words)]),
                 FALSE, eid, ore)
     ELSE Finish([st EXCEPT !.loading = FALSE], scopes, timers,
                 Drop(i), FALSE, eid, ore)
  /\ UNCHANGED <<mounted, srv, log, cap>>

MountOcrDone(i) == \E r \in {IF srv.ocrOk THEN "ok" ELSE "error"} : MountOcrAnswered(i, r)

\* fetchOcrResult after the presigned-URL request answered (or failed), up to
\* the await inside fetchExtractionInfo
MountUrlDone(i) ==
  /\ i.k = "mount.url"
  /\ \E r \in {IF srv.urlOk THEN "ok" ELSE "error"} :
       LET s1 == IF r = "ok" /\ srv.multipage
                 THEN [st EXCEPT !.isMultipage = TRUE, !.totalPages = srv.pages,
                                 !.imageUrls = [p \in 1..srv.pages |-> PageUrl(p)],
                                 !.imageSrc = PageUrl(1), !.currentPageIndex = 0]
                 ELSE IF r = "ok"
                 THEN [st EXCEPT !.isMultipage = FALSE, !.totalPages = 1,
                                 !.imageUrls = <<PageUrl(1)>>,
                                 !.imageSrc = PageUrl(1), !.currentPageIndex = 0]
                 ELSE [st EXCEPT !.imageSrc = "/image", !.isMultipage = FALSE,
                                 !.totalPages = 1, !.imageUrls = <<"/image">>]
           s2 == [s1 EXCEPT !.ocrWords = IF isOcrEnabled THEN i.d.v ELSE <<>>]
       IN  Finish(s2, scopes, timers,
                  Put(Drop(i), [Idle EXCEPT !.k = "mount.fetch"]), TRUE, eid, ore)
  /\ UNCHANGED <<mounted, srv, log, cap>>

\* fetchOcrResult after its `await fetchExtractionInfo()`: both closures are
\* those of the first render (scope 0)
MountFetchAnswered(i, resp) ==
  /\ i.k = "mount.fetch"
  /\ LET s1 == fetchExtractionInfo(st, scopes[0].s, resp)
         sc1 == IF FetchStops(resp) THEN ClearBinding(scopes, 0) ELSE scopes
         tm1 == IF FetchStops(resp) THEN clearInterval(timers, scopes[0].sct) ELSE timers
     IN  Finish([s1 EXCEPT !.loading = FALSE], sc1, tm1, Drop(i),
                FetchStops(resp), eid, ore)
  /\ UNCHANGED <<mounted, srv, log, cap>>

MountFetchDone(i) == \E resp \in ExtractResponses : MountFetchAnswered(i, resp)

\* the cleanup of the mount effect: it closed over the first render's statusCheckTimer
Unmount ==
  /\ mounted
  /\ mounted' = FALSE
  /\ LET tm1 == clearInterval(timers, scopes[0].sct)
         sc1 == ClearBinding(scopes, 0)
         refs == {0} \cup {tm1[t].sid : t \in {u \in TimerIds : tm1[u].live}}
                     \cup ScopesOf(tasks)
     IN  /\ timers' = tm1
         /\ scopes' = [i \in ScopeIds |-> IF i \in refs THEN sc1[i] ELSE DeadScope]
         /\ scope' = 0
  /\ UNCHANGED <<st, tasks, srv, eid, ore, log, cap>>

\* changeView
ChangeView ==
  /\ mounted
  /\ ~st.loading
  /\ isOcrEnabled
  /\ Finish([st EXCEPT !.activeView = IF @ = "ocr" THEN "extraction" ELSE "ocr"],
            scopes, timers, tasks, FALSE, eid, ore)
  /\ UNCHANGED <<mounted, srv, log, cap>>

\* a re-render that changes none of the modelled state (the toast closes, the
\* prompt dialog opens or closes)
Rerender ==
  /\ mounted
  /\ Finish(st, scopes, timers, tasks, TRUE, eid, ore)
  /\ UNCHANGED <<mounted, srv, log, cap>>

(* --------------------- ExtractedInfoDisplay (part_004) ----------------- *)
\* { ...obj, [key]: val }
SetProp(obj, key, val) ==
  JObj([k \in DOMAIN obj.v \cup {key} |-> IF k = key THEN val ELSE obj.v[k]])

\* copy of an array with element i (0-based) replaced
SetAt(seq, i, val) == [k \in 1..Len(seq) |-> IF k = i + 1 THEN val ELSE seq[k]]

\* copy.splice(i, 1)
\* a faulty variant of RemoveAt: the last element is dropped whatever i is
RemoveAt_Last(seq, i) == SubSeq(seq, 1, Len(seq) - 1)

RemoveAt(seq, i) == SubSeq(seq, 1, i) \o SubSeq(seq, i + 2, Len(seq))

\* editedInfo[fieldName] || [] (the list fields of the documents hold arrays)
ListData(info, fieldName) ==
  IF Truthy(Prop(info, fieldName)) THEN Prop(info, fieldName).v ELSE <<>>

\* what the user types into an input
EditValues == {JStr(<<"z">>)}

\* renderField: the field is drawn by renderStringField
IsStringRendered(field) ==
  ~(field.type = "map" /\ field.hasFields) /\ ~(field.type = "list" /\ field.hasItems)

\* the "edit" button: toggleEditMode outside edit mode
EidEnterEdit ==
  /\ mounted
  /\ EidVisible(st)
  /\ ~eid.editMode
  /\ Finish(st, scopes, timers, tasks, FALSE, [eid EXCEPT !.editMode = TRUE], ore)
  /\ UNCHANGED <<mounted, srv, log, cap>>

\* updateFieldValue(fieldName, value): the buffer and, at once, the parent's extractedInfo
updateFieldValue(fieldName, value) ==
  LET newEditedInfo == SetProp(eid.editedInfo, fieldName, value)
  IN  /\ Finish([st EXCEPT !.extractedInfo = newEditedInfo], scopes, timers, tasks, TRUE,
                [eid EXCEPT !.editedInfo = newEditedInfo], ore)
      /\ UNCHANGED <<mounted, srv, log, cap>>

EidEditing == mounted /\ EidVisible(st) /\ eid.editMode

\* onChange of a string input
EidUpdateField ==
  /\ EidEditing
  /\ \E field \in Range(st.appFields), value \in EditValues :
       /\ IsStringRendered(field)
       /\ updateFieldValue(field.name, value)

\* updateMapFieldValue: the buffer only
EidUpdateMapField ==
  /\ EidEditing
  /\ \E field \in Range(st.appFields), value \in EditValues :
       /\ field.type = "map" /\ field.hasFields
       /\ \E subFieldName \in Range(field.fields) :
            LET got == Prop(eid.editedInfo, field.name)
                currentMap == IF Truthy(got) THEN got ELSE JObj(EmptyObj)
                updatedMap == SetProp(currentMap, subFieldName, value)
            IN  Finish(st, scopes, timers, tasks, FALSE,
                       [eid EXCEPT !.editedInfo = SetProp(@, field.name, updatedMap)], ore)
  /\ UNCHANGED <<mounted, srv, log, cap>>

IsTable(field) ==
  field.type = "list" /\ field.hasItems /\ field.itemsType = "map" /\ field.itemsHasFields

\* updateListItemProperty: the buffer only
EidUpdateListItemProperty ==
  /\ EidEditing
  /\ \E field \in Range(st.appFields), value \in EditValues :
       /\ IsTable(field)
       /\ \E itemIndex \in 0..(Len(ListData(eid.editedInfo, field.name)) - 1),
             propertyName \in Range(field.itemsFields) :
            LET currentList == ListData(eid.editedInfo, field.name)
                item == SetProp(At(currentList, itemIndex), propertyName, value)
            IN  Finish(st, scopes, timers, tasks, FALSE,
                       [eid EXCEPT !.editedInfo =
                          SetProp(@, field.name, JArr(SetAt(currentList, itemIndex, item)))],
                       ore)
  /\ UNCHANGED <<mounted, srv, log, cap>>

\* a list field drawn as a bullet list of inputs
IsSimpleList(field) == field.type = "list" /\ field.hasItems /\ ~IsTable(field)

\* updateListItem: the buffer only
EidUpdateListItem ==
  /\ EidEditing
  /\ \E field \in Range(st.appFields), itemValue \in EditValues :
       /\ IsSimpleList(field)
       /\ \E itemIndex \in 0..(Len(ListData(eid.editedInfo, field.name)) - 1) :
            LET currentList == ListData(eid.editedInfo, field.name)
            IN  Finish(st, scopes, timers, tasks, FALSE,
                       [eid EXCEPT !.editedInfo =
                          SetProp(@, field.name, JArr(SetAt(currentList, itemIndex, itemValue)))],
                       ore)
  /\ UNCHANGED <<mounted, srv, log, cap>>

\* the add-item button of a simple list
EidAddItem ==
  /\ EidEditing
  /\ \E field \in Range(st.appFields) :
       /\ IsSimpleList(field)
       /\ Len(ListData(eid.editedInfo, field.name)) < MaxRows
       /\ updateFieldValue(field.name,
                           JArr(Append(ListData(eid.editedInfo, field.name), JStr(<<>>))))

\* the delete button of row itemIndex of the table fieldName
EidRemoveRowAt(fieldName, itemIndex) ==
  /\ EidEditing
  /\ \E field \in Range(st.appFields) : IsTable(field) /\ field.name = fieldName
  /\ InRange(ListData(eid.editedInfo, fieldName), itemIndex)
  /\ updateFieldValue(fieldName, JArr(RemoveAt(ListData(eid.editedInfo, fieldName), itemIndex)))

\* a delete button that would also drop the mapping row of the removed row
EidRemoveRow_Reindexing ==
  /\ EidEditing
  /\ \E field \in Range(st.appFields) :
       /\ IsTable(field)
       /\ \E itemIndex \in 0..(Len(ListData(eid.editedInfo, field.name)) - 1) :
            LET newEditedInfo ==
                  SetProp(eid.editedInfo, field.name,
                          JArr(RemoveAt(ListData(eid.editedInfo, field.name), itemIndex)))
                fieldMapping == Prop(st.mapping, field.name)
                newMapping ==
                  IF fieldMapping.t = "array" /\ InRange(fieldMapping.v, itemIndex)
                  THEN SetProp(st.mapping, field.name, JArr(RemoveAt(fieldMapping.v, itemIndex)))
                  ELSE st.mapping
            IN  Finish([st EXCEPT !.extractedInfo = newEditedInfo, !.mapping = newMapping],
                       scopes, timers, tasks, TRUE,
                       [eid EXCEPT !.editedInfo = newEditedInfo], ore)
  /\ UNCHANGED <<mounted, srv, log, cap>>

\* the delete button of a table row
EidRemoveRow ==
  /\ EidEditing
  /\ \E field \in Range(st.appFields) :
       /\ IsTable(field)
       /\ \E itemIndex \in 0..(Len(ListData(eid.editedInfo, field.name)) - 1) :
            updateFieldValue(field.name,
                             JArr(RemoveAt(ListData(eid.editedInfo, field.name), itemIndex)))

\* the add-row button of a table that has fewer than n rows
EidAddRowUpTo(n) ==
  /\ EidEditing
  /\ \E field \in Range(st.appFields) :
       /\ IsTable(field)
       /\ Len(ListData(eid.editedInfo, field.name)) < n
       /\ LET newItem == JObj([c \in Range(field.itemsFields) |-> JStr(<<>>)])
          IN  updateFieldValue(field.name,
                               JArr(Append(ListData(eid.editedInfo, field.name), newItem)))

\* the add-row button of a table
EidAddRow ==
  /\ EidEditing
  /\ \E field \in Range(st.appFields) :
       /\ IsTable(field)
       /\ Len(ListData(eid.editedInfo, field.name)) < MaxRows
       /\ LET newItem == JObj([c \in Range(field.itemsFields) |-> JStr(<<>>)])
          IN  updateFieldValue(field.name,
                               JArr(Append(ListData(eid.editedInfo, field.name), newItem)))

\* the "save" button: toggleEditMode in edit mode. The delayed callback calls
\* the onSave it closed over: saveExtractedInfo of the parent's current render.
\* The task remembers the buffer the click committed.
EidSave ==
  /\ EidEditing
  /\ HasFreeTask
  /\ log.saves < MaxSaves
  /\ log' = [log EXCEPT !.saves = @ + 1]
  /\ Finish([st EXCEPT !.extractedInfo = eid.editedInfo], scopes, timers,
            Put(tasks, [Idle EXCEPT !.k = "save.delay", !.sid = scope, !.d = eid.editedInfo]),
            FALSE, [eid EXCEPT !.editMode = FALSE], ore)
  /\ UNCHANGED <<mounted, srv, cap>>

\* cancelEdit
EidCancel ==
  /\ EidEditing
  /\ Finish(st, scopes, timers, tasks, FALSE,
            [eid EXCEPT !.editedInfo = eid.originalInfo, !.editMode = FALSE], ore)
  /\ UNCHANGED <<mounted, srv, log, cap>>

(* ------------------------- saving field values ------------------------- *)
\* the delay of toggleEditMode elapsed: saveExtractedInfo() of the closure sid
\* posts the extractedInfo and mapping that closure holds
SaveDelayDone(i) ==
  /\ i.k = "save.delay"
  /\ LET cl == scopes[i.sid].s
         body == JObj([k \in {"extracted_info", "mapping", "committed"} |->
                         CASE k = "extracted_info" -> cl.extractedInfo
                           [] k = "mapping" -> cl.mapping
                           [] OTHER -> i.d])
     IN  Finish(st, scopes, timers, Put(Drop(i), [i EXCEPT !.k = "save.post", !.d = body]),
                FALSE, eid, ore)
  /\ UNCHANGED <<mounted, srv, log, cap>>

\* POST /ocr/extract/edit/{id}: the backend stores the values and mapping sent
StoreExtraction(body) ==
  [srv EXCEPT !.info = body.v["extracted_info"], !.mapping = body.v["mapping"],
              !.hasMapping = TRUE]

\* saveExtractedInfo after the POST answered, up to the await inside fetchExtractionInfo
SavePostDone(i) ==
  /\ i.k = "save.post"
  /\ \E r \in {"success", "error"} :
       IF r = "success"
       THEN /\ srv' = StoreExtraction(i.d)
            /\ Finish(st, scopes, timers,
                      Put(Drop(i), [i EXCEPT !.k = "save.fetch", !.d = i.d.v["committed"]]),
                      FALSE, eid, ore)
       ELSE /\ UNCHANGED srv
            /\ Finish(st, scopes, timers, Drop(i), TRUE, eid, ore)
  /\ UNCHANGED <<mounted, log, cap>>

\* saveExtractedInfo after its `await fetchExtractionInfo()`
SaveFetchAnswered(i, resp) ==
  /\ i.k = "save.fetch"
  /\ LET sid == i.sid
         s1 == fetchExtractionInfo(st, scopes[sid].s, resp)
         sc1 == IF FetchStops(resp) THEN ClearBinding(scopes, sid) ELSE scopes
         tm1 == IF FetchStops(resp) THEN clearInterval(timers, scopes[sid].sct) ELSE timers
     IN  Finish(s1, sc1, tm1, Drop(i), TRUE, eid, ore)
  /\ UNCHANGED <<mounted, srv, log, cap>>

SaveFetchDone(i) == \E resp \in ExtractResponses : SaveFetchAnswered(i, resp)

(* ----------------------------- OcrResultEditor ------------------------- *)
OreEditing == mounted /\ OreVisible(st) /\ ore.editMode

\* the "edit" button: toggleEditMode outside edit mode
OreEnterEdit ==
  /\ mounted
  /\ OreVisible(st)
  /\ ~ore.editMode
  /\ Finish(st, scopes, timers, tasks, FALSE, eid, [ore EXCEPT !.editMode = TRUE])
  /\ UNCHANGED <<mounted, srv, log, cap>>

\* what the user types over a token's text
EditContents == {<<"z">>}

\* a faulty variant of updateTextContent: the row is rebuilt from the text
\* alone and loses its geometry
updateTextContent_NewToken ==
  /\ OreEditing
  /\ \E index \in {0, Len(ore.editedResults) - 1}, content \in EditContents :
       LET word == Word(content, At(ore.editedResults, index).page, NoPoints)
       IN  Finish(st, scopes, timers, tasks, FALSE, eid,
                  [ore EXCEPT !.editedResults = SetAt(@, index, word)])
  /\ UNCHANGED <<mounted, srv, log, cap>>

\* updateTextContent(index, content)
updateTextContent ==
  /\ OreEditing
  /\ \E index \in {0, Len(ore.editedResults) - 1}, content \in EditContents :
       LET word == [At(ore.editedResults, index) EXCEPT !.content = content]
       IN  Finish(st, scopes, timers, tasks, FALSE, eid,
                  [ore EXCEPT !.editedResults = SetAt(@, index, word)])
  /\ UNCHANGED <<mounted, srv, log, cap>>

\* the "save" button: toggleEditMode in edit mode calls updateOcrResults, which
\* sets ocrWords and calls saveOcrEdit(updatedWords) up to its await
OreSave ==
  /\ OreEditing
  /\ HasFreeTask
  /\ log.saves < MaxSaves
  /\ log' = [log EXCEPT !.saves = @ + 1]
  /\ Finish([st EXCEPT !.ocrWords = ore.editedResults], scopes, timers,
            Put(tasks, [Idle EXCEPT !.k = "saveOcrEdit", !.sid = scope,
                                    !.d = JArr(ore.editedResults)]),
            TRUE, eid, [ore EXCEPT !.editMode = FALSE])
  /\ UNCHANGED <<mounted, srv, cap>>

\* cancelEdit
OreCancel ==
  /\ OreEditing
  /\ Finish(st, scopes, timers, tasks, FALSE, eid,
            [ore EXCEPT !.editedResults = ore.originalResults, !.editMode = FALSE])
  /\ UNCHANGED <<mounted, srv, log, cap>>

\* saveOcrEdit after POST /ocr/edit/{id} answered: the backend stores the words
\* sent; the toast re-renders
SaveOcrEditDone(i) ==
  /\ i.k = "saveOcrEdit"
  /\ \E r \in {"success", "error"} :
       /\ srv' = IF r = "success" THEN [srv EXCEPT !.words = i.d.v] ELSE srv
       /\ Finish(st, scopes, timers, Drop(i), TRUE, eid, ore)
  /\ UNCHANGED <<mounted, log, cap>>

(* ------------------------------ highlighting --------------------------- *)
\* the field paths ExtractedInfoDisplay passes to onHighlightField, as the key
\* lists path.split('.') yields
HighlightPaths(appFields) ==
  {<<field.name>> : field \in {g \in Range(appFields) : IsStringRendered(g)}}
    \cup UNION {{<<field.name, subFieldName>> : subFieldName \in Range(field.fields)} :
                  field \in {g \in Range(appFields) : g.type = "map" /\ g.hasFields}}

\* setSelectedIndex(index) unless the highlight selected nothing
Select(s, index) == IF index = Null THEN s ELSE [s EXCEPT !.selectedIndex = index]

\* handleExtractedFieldClick(fieldPath)
handleExtractedFieldClick(fieldPath) ==
  LET wordIndices == WordIndicesAt(st.mapping, fieldPath)
      targetWord == At(st.ocrWords, wordIndices.v[1].v)
      targetPage == PageOr1(targetWord)
      targetPageIndex == targetPage - 1
  IN  IF ~ResolvesToWord(wordIndices, st.ocrWords)
      THEN Finish(st, scopes, timers, tasks, FALSE, eid, ore)
      ELSE IF targetPageIndex # st.currentPageIndex
      THEN /\ HasFreeTask
           /\ Finish([st EXCEPT !.currentPageIndex = targetPageIndex,
                                !.imageSrc = UrlAt(st.imageUrls, targetPageIndex)],
                     scopes, timers,
                     Put(tasks, [Idle EXCEPT !.k = "highlight", !.sid = scope,
                                             !.p = targetPage, !.d = JStr(fieldPath)]),
                     FALSE, eid, ore)
      ELSE Finish(Select(st, highlightWordsOnCurrentPage(st, fieldPath, targetPage)),
                  scopes, timers, tasks, FALSE, eid, ore)

\* highlightField(fieldPath, stayOnExtractionView = true), as ExtractedInfoDisplay calls it
highlightField(fieldPath) ==
  /\ mounted
  /\ EidVisible(st)
  /\ handleExtractedFieldClick(fieldPath)
  /\ UNCHANGED <<mounted, srv, log, cap>>

HighlightFieldClick == \E fieldPath \in HighlightPaths(st.appFields) : highlightField(fieldPath)

\* the delay of handleExtractedFieldClick elapsed: highlightWordsOnCurrentPage
\* of the closure that scheduled it
HighlightDelayDone(i) ==
  /\ i.k = "highlight"
  /\ Finish(Select(st, highlightWordsOnCurrentPage(scopes[i.sid].s, i.d.v, i.p)),
            scopes, timers, Drop(i), FALSE, eid, ore)
  /\ UNCHANGED <<mounted, srv, log, cap>>

\* the index-set highlightTableCell reads: mapping[fieldName][rowIndex][columnName]
\* when mapping[fieldName] is an array, its element rowIndex a non-array
\* object and the entry a non-empty array; JUndef otherwise
CellIndicesAt(mapping, fieldName, rowIndex, columnName) ==
  LET fieldMapping == Prop(mapping, fieldName)
      rowMapping == IF fieldMapping.t = "array" /\ InRange(fieldMapping.v, rowIndex)
                    THEN At(fieldMapping.v, rowIndex) ELSE JUndef
      cellIndices == Prop(rowMapping, columnName)
  IN  IF rowMapping.t = "object" /\ cellIndices.t = "array" /\ Len(cellIndices.v) > 0
      THEN cellIndices ELSE JUndef

\* highlightTableCellOnPage(cellIndices, targetPage) in the closure cl: the
\* index it passes to setSelectedIndex, or Null when it selects nothing
highlightTableCellOnPage(cl, cellIndices, targetPage) ==
  IF ~ResolvesToWord(cellIndices, cl.ocrWords) THEN Null
  ELSE LET targetWord == At(cl.ocrWords, cellIndices.v[1].v)
           currentPageWords == HighlightPageWords(cl.ocrWords, cl.isMultipage, targetPage)
           relativeIndex == FindIndex(currentPageWords, targetWord)
       IN  IF relativeIndex # -1 THEN relativeIndex ELSE Null

\* highlightTableCell(fieldName, rowIndex, columnName), as ExtractedInfoDisplay
\* calls it; its second block repeats the first and is reached only when the
\* first found no index-set
highlightTableCell(fieldName, rowIndex, columnName) ==
  /\ mounted
  /\ EidVisible(st)
  /\ LET cellIndices == CellIndicesAt(st.mapping, fieldName, rowIndex, columnName)
         targetWord == At(st.ocrWords, cellIndices.v[1].v)
         targetPage == PageOr1(targetWord)
         targetPageIndex == targetPage - 1
     IN  IF cellIndices = JUndef \/ ~ResolvesToWord(cellIndices, st.ocrWords)
         THEN Finish(st, scopes, timers, tasks, FALSE, eid, ore)
         ELSE IF targetPageIndex # st.currentPageIndex
         THEN /\ HasFreeTask
              /\ Finish([st EXCEPT !.currentPageIndex = targetPageIndex,
                                   !.imageSrc = UrlAt(st.imageUrls, targetPageIndex)],
                        scopes, timers,
                        Put(tasks, [Idle EXCEPT !.k = "highlightCell", !.sid = scope,
                                                !.p = targetPage, !.d = cellIndices]),
                        FALSE, eid, ore)
         ELSE Finish(Select(st, highlightTableCellOnPage(st, cellIndices, targetPage)),
                     scopes, timers, tasks, FALSE, eid, ore)
  /\ UNCHANGED <<mounted, srv, log, cap>>

\* the rows ExtractedInfoDisplay draws of a list field: those of the buffer in
\* edit mode, those of the extractedInfo prop otherwise
ShownRows(fieldName) ==
  ListData(IF eid.editMode THEN eid.editedInfo ELSE st.extractedInfo, fieldName)

\* a cell of a table is clicked or focused
HighlightCellClick ==
  \E field \in {g \in Range(st.appFields) : IsTable(g)} :
    \E rowIndex \in 0..(Len(ShownRows(field.name)) - 1),
       columnName \in Range(field.itemsFields) :
      highlightTableCell(field.name, rowIndex, columnName)

\* the delay of highlightTableCell elapsed: highlightTableCellOnPage of the
\* closure that scheduled it
HighlightCellDelayDone(i) ==
  /\ i.k = "highlightCell"
  /\ Finish(Select(st, highlightTableCellOnPage(scopes[i.sid].s, i.d, i.p)),
            scopes, timers, Drop(i), FALSE, eid, ore)
  /\ UNCHANGED <<mounted, srv, log, cap>>

goToPreviousPage ==
  /\ mounted
  /\ st.isMultipage
  /\ st.currentPageIndex > 0
  /\ LET newIndex == st.currentPageIndex - 1
     IN  Finish([st EXCEPT !.currentPageIndex = newIndex,
                           !.imageSrc = UrlAt(st.imageUrls, newIndex),
                           !.selectedIndex = Null],
                scopes, timers, tasks, FALSE, eid, ore)
  /\ UNCHANGED <<mounted, srv, log, cap>>

goToNextPage ==
  /\ mounted
  /\ st.isMultipage
  /\ st.currentPageIndex < st.totalPages - 1
  /\ LET newIndex == st.currentPageIndex + 1
     IN  Finish([st EXCEPT !.currentPageIndex = newIndex,
                           !.imageSrc = UrlAt(st.imageUrls, newIndex),
                           !.selectedIndex = Null],
                scopes, timers, tasks, FALSE, eid, ore)
  /\ UNCHANGED <<mounted, srv, log, cap>>

\* a box of the image pane is clicked: onSelectBox={setSelectedIndex}
SelectBox ==
  /\ mounted
  /\ ~st.loading
  /\ \E index \in 0..(Len(BoxPageWords(st.ocrWords, st.isMultipage, st.currentPageIndex)) - 1) :
       Finish([st EXCEPT !.selectedIndex = index], scopes, timers, tasks, FALSE, eid, ore)
  /\ UNCHANGED <<mounted, srv, log, cap>>

\* the text of a row of OcrResultEditor is clicked outside edit mode:
\* onSelectIndex={handleTextBoxClick}, for a row other than the selected one
TextRowClick ==
  /\ mounted
  /\ OreVisible(st)
  /\ ~ore.editMode
  /\ \E index \in 0..(Len(ore.editedResults) - 1) :
       /\ st.selectedIndex # index
       /\ Finish([st EXCEPT !.selectedIndex = index], scopes, timers, tasks, FALSE, eid, ore)
  /\ UNCHANGED <<mounted, srv, log, cap>>

(* ----------------------------- documents ------------------------------- *)
Schema ==
  << StringField("f"), MapField("m", <<"x">>), ListOfMapField("l", <<"c">>),
     OtherField("n", "text") >>

Str(s) == JStr(s)

\* a two-page document: two tokens on page 1, two on page 2
PagedWords ==
  << Word(<<"a">>, 1, Poly(0, 0)), Word(<<"b">>, 1, Poly(0, 2)),
     Word(<<"a">>, 2, Poly(0, 0)), Word(<<"c">>, 2, Poly(0, 2)) >>

BaseInfo ==
  JObj([k \in {"f", "m", "l", "n"} |->
         CASE k = "f" -> JStr(<<"a">>)
           [] k = "m" -> JObj([x \in {"x"} |-> JStr(<<"b">>)])
           [] k = "l" -> JArr(<< JObj([c \in {"c"} |-> JStr(<<"a">>)]),
                                 JObj([c \in {"c"} |-> JStr(<<"c">>)]) >>)
           [] OTHER -> JStr(<<"c">>)])

BaseMapping ==
  JObj([k \in {"f", "m", "l", "n"} |->
         CASE k = "f" -> Nums(<<0>>)
           [] k = "m" -> JObj([x \in {"x"} |-> Nums(<<1>>)])
           [] k = "l" -> JArr(<< JObj([c \in {"c"} |-> Nums(<<2>>)]),
                                 JObj([c \in {"c"} |-> Nums(<<3>>)]) >>)
           [] OTHER -> Nums(<<3>>)])

BaseDoc ==
  [status |-> "pending", fields |-> Schema, info |-> BaseInfo, hasMapping |-> TRUE,
   mapping |-> BaseMapping, words |-> PagedWords, multipage |-> TRUE, pages |-> 2,
   ocrOk |-> TRUE, urlOk |-> TRUE, job |-> "none"]

(* ------------------------- polling specification ----------------------- *)
EmptyLog == [starts |-> 0, saves |-> 0, last |-> JUndef]

\* the state right after construction: the first render has run its mount
\* effect, fetchOcrResult awaits GET /ocr/result
Constructed(doc, c, started) ==
  /\ st = InitState
  /\ mounted = TRUE
  /\ scope = 0
  /\ scopes = [i \in ScopeIds |-> DeadScope]
  /\ timers = [t \in TimerIds |-> DeadTimer]
  /\ tasks = SetToBag({[Idle EXCEPT !.k = "mount.ocr"]})
  /\ srv = doc
  /\ eid = EidAfterEffects([editMode |-> FALSE], InitState)
  /\ ore = OreAfterEffects([editMode |-> FALSE], InitState)
  /\ log = [EmptyLog EXCEPT !.starts = started]
  /\ cap = c

PollDocs == {[BaseDoc EXCEPT !.status = s] : s \in {"processing", "completed"}}

InitPoll == \E doc \in PollDocs : Constructed(doc, PollTicks, 0)

PollStep ==
  \/ StartExtractionClick
  \/ RerunOcrClick
  \/ ChangeView
  \/ Rerender
  \/ Unmount
  \/ SrvFinish
  \/ \E t \in TimerIds : Tick(t)
  \/ \E i \in BagToSet(tasks) :
       \/ StartExtractionDone(i)
       \/ RerunOcrDone(i)
       \/ TickStatusDone(i)
       \/ TickFetchDone(i)
       \/ MountOcrDone(i)
       \/ MountUrlDone(i)
       \/ MountFetchDone(i)

SpecPoll == InitPoll /\ [][PollStep]_vars

(* --------------- polling while the job never ends ---------------------- *)
\* one job start, a backend that keeps answering "processing", and enough ticks
\* per timer to pass the attempt budget
InitStuck ==
  Constructed([BaseDoc EXCEPT !.status = "processing"], MAX_POLLING_ATTEMPTS + 1,
              MaxStarts - 1)

StuckStep ==
  \/ StartExtractionClick
  \/ RerunOcrClick
  \/ ChangeView
  \/ Rerender
  \/ Unmount
  \/ \E t \in TimerIds : Tick(t)
  \/ \E i \in BagToSet(tasks) :
       \/ StartExtractionDone(i)
       \/ RerunOcrDone(i)
       \/ TickStatusDone(i)
       \/ MountOcrDone(i)
       \/ MountUrlDone(i)
       \/ MountFetchDone(i)

SpecStuck == InitStuck /\ [][StuckStep]_vars

(* --------------------------- edit sessions ----------------------------- *)
\* a completed document is opened and edited in both editors
EditSchema == << StringField("f"), MapField("m", <<"x">>), ListOfMapField("l", <<"c">>) >>

EditInfo ==
  JObj([k \in {"f", "m", "l"} |->
         CASE k = "f" -> JStr(<<"a">>)
           [] k = "m" -> JObj([x \in {"x"} |-> JStr(<<"b">>)])
           [] OTHER -> JArr(<< JObj([c \in {"c"} |-> JStr(<<"a">>)]) >>)])

EditMapping ==
  JObj([k \in {"f", "m", "l"} |->
         CASE k = "f" -> Nums(<<0>>)
           [] k = "m" -> JObj([x \in {"x"} |-> Nums(<<1>>)])
           [] OTHER -> JArr(<< JObj([c \in {"c"} |-> Nums(<<2>>)]) >>)])

EditDoc ==
  [BaseDoc EXCEPT !.status = "completed", !.fields = EditSchema, !.info = EditInfo,
                  !.mapping = EditMapping]

InitEdit == Constructed(EditDoc, PollTicks, MaxStarts)

EditStep ==
  \/ ChangeView
  \/ EidEnterEdit
  \/ EidUpdateField
  \/ EidUpdateMapField
  \/ EidUpdateListItemProperty
  \/ EidRemoveRow
  \/ EidAddRow
  \/ EidSave
  \/ EidCancel
  \/ OreEnterEdit
  \/ updateTextContent
  \/ OreSave
  \/ OreCancel
  \/ \E i \in BagToSet(tasks) :
       \/ SaveDelayDone(i)
       \/ SavePostDone(i)
       \/ SaveFetchDone(i)
       \/ SaveOcrEditDone(i)
       \/ MountOcrDone(i)
       \/ MountUrlDone(i)
       \/ MountFetchDone(i)

SpecEdit == InitEdit /\ [][EditStep]_vars

(* ------------------- changes of leaf values in edit mode --------------- *)
\* the document of the edit sessions with a simple list s besides f, m.x and l
LeafDoc ==
  [EditDoc EXCEPT !.fields = Append(EditSchema, ListOfStringField("s")),
                  !.info = SetProp(EditInfo, "s", JArr(<<>>)),
                  !.mapping = SetProp(EditMapping, "s", Nums(<<>>))]

InitLeaf == Constructed(LeafDoc, PollTicks, MaxStarts)

LeafStep ==
  \/ EidEnterEdit
  \/ EidUpdateField
  \/ EidUpdateMapField
  \/ EidUpdateListItemProperty
  \/ EidUpdateListItem
  \/ EidAddItem
  \/ EidRemoveRow
  \/ EidAddRow
  \/ EidCancel
  \/ \E i \in BagToSet(tasks) :
       \/ MountOcrDone(i)
       \/ MountUrlDone(i)
       \/ MountFetchDone(i)

SpecLeaf == InitLeaf /\ [][LeafStep]_vars

(* ---------------------------- highlighting ------------------------------ *)
\* a mapping of the schema f, m.x, l, n; an entry of JUndef is left out
MappingOf(f, x, n) ==
  LET all == [k \in {"f", "m", "l", "n"} |->
                CASE k = "f" -> f
                  [] k = "m" -> JObj([y \in {"x"} |-> x])
                  [] k = "l" -> BaseMapping.v["l"]
                  [] OTHER -> n]
  IN  JObj([k \in {j \in DOMAIN all : all[j] # JUndef} |-> all[k]])

\* two pairs of tokens with the same content and geometry on the same page
DupWords ==
  << Word(<<"a">>, 1, Poly(0, 0)), Word(<<"a">>, 1, Poly(0, 0)),
     Word(<<"c">>, 2, Poly(0, 2)), Word(<<"c">>, 2, Poly(0, 2)) >>

\* a single image whose tokens carry no page number
FlatWords == << Word(<<"a">>, 0, Poly(0, 0)), Word(<<"b">>, 0, NoPoints) >>

\* tokens 0-4 on page 1, tokens 5-7 on page 2
ScenarioWords ==
  [i \in 1..8 |-> Word(<<"t">>, IF i <= 5 THEN 1 ELSE 2, Poly(0, 2 * i))]

CompletedDoc == [BaseDoc EXCEPT !.status = "completed"]

HighlightDocs ==
  { CompletedDoc,
    [CompletedDoc EXCEPT !.mapping = MappingOf(JUndef, Nums(<<>>), Nums(<<2, 3>>))],
    [CompletedDoc EXCEPT !.words = DupWords,
                         !.mapping = MappingOf(Nums(<<1>>), Nums(<<0>>), Nums(<<3>>))],
    [CompletedDoc EXCEPT !.words = FlatWords, !.multipage = FALSE, !.pages = 1,
                         !.mapping = MappingOf(Nums(<<1>>), Nums(<<0>>), Nums(<<5>>))],
    [CompletedDoc EXCEPT !.words = ScenarioWords,
                         !.fields = << StringField("invoice_number") >>,
                         !.info = JObj([k \in {"invoice_number"} |-> JStr(<<"t">>)]),
                         !.mapping = JObj([k \in {"invoice_number"} |-> Nums(<<6>>)])] }

\* the presigned-URL request succeeds or fails (single-image fallback)
InitHighlight ==
  \E doc \in HighlightDocs, urlOk \in BOOLEAN :
    Constructed([doc EXCEPT !.urlOk = urlOk], PollTicks, MaxStarts)

HighlightStep ==
  \/ HighlightFieldClick
  \/ goToPreviousPage
  \/ goToNextPage
  \/ SelectBox
  \/ Unmount
  \/ \E i \in BagToSet(tasks) :
       \/ HighlightDelayDone(i)
       \/ MountOcrDone(i)
       \/ MountUrlDone(i)
       \/ MountFetchDone(i)

SpecHighlight == InitHighlight /\ [][HighlightStep]_vars

(* ------------------- documents without a server mapping ---------------- *)
AcmeValue == <<"A", "C", "M", "E", " ", "C", "o", "r", "p">>

AcmeWords ==
  << Word(<<"A", "c", "m", "e", " ", "C", "o", "r", "p", ".">>, 1, Poly(0, 0)),
     Word(<<"b">>, 1, Poly(0, 2)) >>

\* the value "ACME Corp" in a field of type string (f) and in one of another
\* leaf type (n); the backend supplies no mapping
UnmappedDoc ==
  [BaseDoc EXCEPT !.hasMapping = FALSE, !.mapping = JObj(EmptyObj), !.words = AcmeWords,
                  !.multipage = FALSE, !.pages = 1,
                  !.info = JObj([k \in {"f", "m", "l", "n"} |->
                                   IF k \in {"f", "n"} THEN JStr(AcmeValue)
                                   ELSE BaseInfo.v[k]])]

InitUnmapped ==
  \E s \in {"processing", "completed"} :
    Constructed([UnmappedDoc EXCEPT !.status = s], PollTicks, MaxStarts - 1)

SpecUnmapped == InitUnmapped /\ [][PollStep]_vars

(* ------------- a restart after the attempt budget was used ------------ *)
\* extraction restarts of a job the backend keeps reporting as processing,
\* with enough ticks per timer to pass the attempt budget before a restart
InitRestart ==
  Constructed([BaseDoc EXCEPT !.status = "processing"], MAX_POLLING_ATTEMPTS + 1, 0)

RestartStep ==
  \/ StartExtractionClick
  \/ ChangeView
  \/ \E t \in TimerIds : Tick(t)
  \/ \E i \in BagToSet(tasks) :
       \/ StartExtractionDone(i)
       \/ TickStatusDone(i)
       \/ MountOcrDone(i)
       \/ MountUrlDone(i)
       \/ MountFetchDone(i)

SpecRestart == InitRestart /\ [][RestartStep]_vars

(* --------------------- requests that fail ------------------------------ *)
\* the token request of the mount succeeds or fails; one job start
InitFail ==
  \E ocrOk \in BOOLEAN, s \in {"pending", "completed"} :
    Constructed([BaseDoc EXCEPT !.status = s, !.ocrOk = ocrOk], PollTicks, MaxStarts - 1)

SpecFail == InitFail /\ [][PollStep]_vars

(* --------------------- tokens with degenerate geometry ----------------- *)
\* geometries of a token: absent, no vertex, three vertices, a rectangle, and
\* a polygon of five vertices
Geometries ==
  { NoPoints,
    [def |-> TRUE, pts |-> <<>>],
    [def |-> TRUE, pts |-> << <<1, 1>>, <<3, 1>>, <<2, 4>> >>],
    Poly(1, 2),
    [def |-> TRUE, pts |-> << <<2, 1>>, <<5, 2>>, <<4, 6>>, <<1, 5>>, <<0, 3>> >>] }

\* two tokens on page 1 and one on page 2, of any of these geometries
BoxDocs ==
  { [CompletedDoc EXCEPT !.words = << Word(<<"a">>, 1, g1), Word(<<"b">>, 1, g2),
                                      Word(<<"c">>, 2, g3) >>] :
      g1 \in Geometries, g2 \in Geometries, g3 \in Geometries }

InitBoxes ==
  \E doc \in BoxDocs, urlOk \in BOOLEAN :
    Constructed([doc EXCEPT !.urlOk = urlOk], PollTicks, MaxStarts)

BoxStep ==
  \/ goToPreviousPage
  \/ goToNextPage
  \/ SelectBox
  \/ \E i \in BagToSet(tasks) :
       \/ MountOcrDone(i)
       \/ MountUrlDone(i)
       \/ MountFetchDone(i)

SpecBoxes == InitBoxes /\ [][BoxStep]_vars

(* --------------------------- cells of a table -------------------------- *)
\* the rows of l hold the values v1, v2 and map to the index-sets e1, e2; an
\* index-set of JUndef leaves the column out of its row
CellDoc(words, v1, v2, e1, e2) ==
  LET Row(e) == JObj([c \in (IF e = JUndef THEN {} ELSE {"c"}) |-> e])
  IN  [CompletedDoc EXCEPT
         !.words = words,
         !.info = SetProp(BaseInfo, "l", JArr(<< JObj([c \in {"c"} |-> JStr(v1)]),
                                                JObj([c \in {"c"} |-> JStr(v2)]) >>)),
         !.mapping = SetProp(BaseMapping, "l", JArr(<< Row(e1), Row(e2) >>))]

\* rows on different pages; a row without the column and one with an empty
\* index-set; tokens that repeat on their page; a table without mapping rows
\* and one whose mapping is not a list of rows
CellDocs ==
  { CellDoc(PagedWords, <<"b">>, <<"c">>, Nums(<<1>>), Nums(<<3>>)),
    CellDoc(PagedWords, <<"b">>, <<"c">>, JUndef, Nums(<<>>)),
    CellDoc(DupWords, <<"a">>, <<"c">>, Nums(<<1>>), Nums(<<3>>)),
    [CompletedDoc EXCEPT !.mapping = SetProp(BaseMapping, "l", JArr(<<>>))],
    [CompletedDoc EXCEPT !.mapping = SetProp(BaseMapping, "l", Nums(<<2>>))] }

InitCells ==
  \E doc \in CellDocs, urlOk \in BOOLEAN :
    Constructed([doc EXCEPT !.urlOk = urlOk], PollTicks, MaxStarts)

CellStep ==
  \/ HighlightCellClick
  \/ goToPreviousPage
  \/ goToNextPage
  \/ EidEnterEdit
  \/ EidRemoveRow
  \/ EidAddRow
  \/ EidCancel
  \/ \E i \in BagToSet(tasks) :
       \/ HighlightCellDelayDone(i)
       \/ MountOcrDone(i)
       \/ MountUrlDone(i)
       \/ MountFetchDone(i)

SpecCells == InitCells /\ [][CellStep]_vars

(* ------------------ an extraction observed completed ------------------ *)
\* a two-page document not yet extracted; one extraction job, page navigation
\* while it runs
InitFetch == Constructed(BaseDoc, PollTicks, MaxStarts - 1)

FetchStep ==
  \/ StartExtractionClick
  \/ ChangeView
  \/ SrvFinish
  \/ goToPreviousPage
  \/ goToNextPage
  \/ \E t \in TimerIds : Tick(t)
  \/ \E i \in BagToSet(tasks) :
       \/ StartExtractionDone(i)
       \/ TickStatusDone(i)
       \/ TickFetchDone(i)
       \/ MountOcrDone(i)
       \/ MountUrlDone(i)
       \/ MountFetchDone(i)

SpecFetch == InitFetch /\ [][FetchStep]_vars

(* --------------------------- rows of a table --------------------------- *)
\* a table l of two columns with one row
RowsDoc ==
  [CompletedDoc EXCEPT
     !.fields = << ListOfMapField("l", <<"c", "d">>) >>,
     !.info = JObj([k \in {"l"} |->
                JArr(<< JObj([c \in {"c", "d"} |-> JStr(IF c = "c" THEN <<"a">> ELSE <<"b">>)]) >>)]),
     !.mapping = JObj([k \in {"l"} |->
                   JArr(<< JObj([c \in {"c", "d"} |-> Nums(IF c = "c" THEN <<0>> ELSE <<1>>)]) >>)])]

InitRows == Constructed(RowsDoc, PollTicks, MaxStarts)

RowsStep ==
  \/ EidEnterEdit
  \/ EidUpdateListItemProperty
  \/ \E itemIndex \in 0..(MaxTableRows - 1) : EidRemoveRowAt("l", itemIndex)
  \/ EidAddRowUpTo(MaxTableRows)
  \/ EidCancel
  \/ \E i \in BagToSet(tasks) :
       \/ MountOcrDone(i)
       \/ MountUrlDone(i)
       \/ MountFetchDone(i)

SpecRows == InitRows /\ [][RowsStep]_vars

(* ------------------------ sources of a selection ----------------------- *)
\* a two-page document and a single image, page images fetched
SelectDocs ==
  { CompletedDoc,
    [CompletedDoc EXCEPT !.words = FlatWords, !.multipage = FALSE, !.pages = 1,
                         !.mapping = MappingOf(Nums(<<1>>), Nums(<<0>>), Nums(<<1>>))] }

InitSelect == \E doc \in SelectDocs : Constructed(doc, PollTicks, MaxStarts)

SelectStep ==
  \/ HighlightFieldClick
  \/ HighlightCellClick
  \/ goToPreviousPage
  \/ goToNextPage
  \/ SelectBox
  \/ TextRowClick
  \/ ChangeView
  \/ \E i \in BagToSet(tasks) :
       \/ HighlightDelayDone(i)
       \/ HighlightCellDelayDone(i)
       \/ MountOcrDone(i)
       \/ MountUrlDone(i)
       \/ MountFetchDone(i)

SpecSelect == InitSelect /\ [][SelectStep]_vars

(* -------------------- highlights in quick succession -------------------- *)
\* a two-page document with one mapped token on page 1 and two on page 2
TwiceDoc ==
  [CompletedDoc EXCEPT !.mapping = MappingOf(Nums(<<0>>), Nums(<<2>>), Nums(<<3>>))]

InitTwice == Constructed(TwiceDoc, PollTicks, MaxStarts)

\* highlightField(fieldPath); the history notes the path of the latest
\* invocation that resolves to a token
HighlightFieldNoted ==
  \E fieldPath \in HighlightPaths(st.appFields) :
    /\ mounted
    /\ EidVisible(st)
    /\ handleExtractedFieldClick(fieldPath)
    /\ log' = IF ResolvesToWord(WordIndicesAt(st.mapping, fieldPath), st.ocrWords)
              THEN [log EXCEPT !.last = JStr(fieldPath)] ELSE log
    /\ UNCHANGED <<mounted, srv, cap>>

\* timeouts of the same delay fire in the order they were set: of two pending
\* delayed highlights the one of the latest invocation fires last
HighlightDelayDoneInOrder(i) ==
  /\ \A j \in BagToSet(tasks) : (j.k = "highlight" /\ j # i) => i.d # log.last
  /\ HighlightDelayDone(i)

TwiceStep ==
  \/ HighlightFieldNoted
  \/ ChangeView
  \/ \E i \in BagToSet(tasks) :
       \/ HighlightDelayDoneInOrder(i)
       \/ MountOcrDone(i)
       \/ MountUrlDone(i)
       \/ MountFetchDone(i)

SpecTwice == InitTwice /\ [][TwiceStep]_vars

(* ------------------ pages, boxes and token replacement ------------------ *)
\* a two-page document whose first token carries no page number
LooseWords ==
  << Word(<<"a">>, 0, Poly(0, 0)), Word(<<"b">>, 1, Poly(0, 2)),
     Word(<<"c">>, 2, Poly(0, 0)) >>

\* a completed extraction over the tokens of LooseWords
PageDocs ==
  { [CompletedDoc EXCEPT !.words = LooseWords,
                         !.mapping = MappingOf(Nums(<<0>>), Nums(<<1>>), Nums(<<2>>))] }

InitPages == \E doc \in PageDocs : Constructed(doc, PollTicks, MaxStarts)

PagesStep ==
  \/ HighlightFieldClick
  \/ goToPreviousPage
  \/ goToNextPage
  \/ ChangeView
  \/ OreEnterEdit
  \/ updateTextContent
  \/ OreSave
  \/ \E i \in BagToSet(tasks) :
       \/ HighlightDelayDone(i)
       \/ SaveOcrEditDone(i)
       \/ MountOcrDone(i)
       \/ MountUrlDone(i)
       \/ MountFetchDone(i)

SpecPages == InitPages /\ [][PagesStep]_vars

(* ------------------------------ claims --------------------------------- *)
LiveTimers == {t \in TimerIds : timers[t].live}

\* C1: at most one poll interval timer is live at any time, whatever sequence
\* of poll starts (startExtraction -> startPolling, rerunOcr) and re-renders
\* came before.
C1_AtMostOneTimer == Cardinality(LiveTimers) <= 1

\* C2: when the backend never reports completed or failed, no timer fires more
\* than MAX_POLLING_ATTEMPTS ticks.
C2_StopsAfterBudget == \A t \in TimerIds : timers[t].n <= MAX_POLLING_ATTEMPTS

\* C3: once the view is unmounted no poll interval timer is live, whichever
\* render started it and even if the start request was still in flight.
C3_NoTimerAfterUnmount == ~mounted => LiveTimers = {}

\* C4: when the handling of a tick that observed "completed" finishes (the
\* payload request has answered), the timer that ticked is stopped, and
\* extractionStatus, which that tick set to "completed", is still "completed"
\* as long as the backend still reports the job as completed.
C4_CompletedTickStops ==
  [][\A i \in BagToSet(tasks) :
       (i.k \in {"poll", "rerun"} /\ i.d = JStr(<<"fetch">>) /\ tasks' = Drop(i))
         => /\ ~timers'[i.tid].live
            /\ (mounted /\ st.extractionStatus = "completed" /\ srv.status = "completed")
                  => st'.extractionStatus = "completed"]_vars

\* C5: the save request issued for a save click carries the buffer that click
\* committed, and when the refetch that follows the save has been handled the
\* live extractedInfo equals that buffer.
C5_SaveRoundTrip ==
  [][\A i \in BagToSet(tasks) :
       /\ SaveDelayDone(i) =>
            \A j \in BagToSet(tasks') :
              j.k = "save.post" => j.d.v["extracted_info"] = j.d.v["committed"]
       /\ (SaveFetchDone(i) /\ mounted) => st'.extractedInfo = i.d]_vars

\* C6: cancelling an edit session issues no request and leaves the live state
\* (extractedInfo / ocrWords) and the buffer that is displayed equal to the
\* snapshot taken when edit mode was entered (originalInfo / originalResults).
C6_CancelRestores ==
  [][/\ EidCancel => /\ st'.extractedInfo = eid.originalInfo
                     /\ eid'.editedInfo = eid.originalInfo
                     /\ tasks' = tasks
     /\ OreCancel => /\ st'.ocrWords = ore.originalResults
                     /\ ore'.editedResults = ore.originalResults
                     /\ tasks' = tasks]_vars

\* the mapping entry at fieldPath is missing or an empty index-set
EmptyEntry(fieldPath) ==
  LET got == getNestedValue(st.mapping, fieldPath)
  IN  got = JUndef \/ got = Nums(<<>>)

\* C7: highlightField(path) whose mapping entry is missing or empty changes
\* neither selectedIndex nor the active page (currentPageIndex, imageSrc) and
\* schedules no delayed selection.
C7_EmptyMappingNoOp ==
  [][\A fieldPath \in HighlightPaths(st.appFields) :
       (highlightField(fieldPath) /\ EmptyEntry(fieldPath))
         => /\ st'.selectedIndex = st.selectedIndex
            /\ st'.currentPageIndex = st.currentPageIndex
            /\ st'.imageSrc = st.imageSrc
            /\ tasks' = tasks]_vars

\* a field with a missing or empty entry can be clicked while a box is selected
\* on the second page: the click leaves this state as it is
C7_Witness ==
  /\ mounted
  /\ EidVisible(st)
  /\ st.isMultipage
  /\ st.selectedIndex # Null
  /\ st.currentPageIndex = 1
  /\ \E a \in HighlightPaths(st.appFields), b \in HighlightPaths(st.appFields) :
       /\ getNestedValue(st.mapping, a) = JUndef
       /\ getNestedValue(st.mapping, b) = Nums(<<>>)
       /\ ENABLED highlightField(a)
       /\ ENABLED highlightField(b)

\* the token the first index of the entry at fieldPath designates, and its page
FirstIndex(fieldPath) == WordIndicesAt(st.mapping, fieldPath).v[1].v

PageOfFirst(fieldPath) == PageOr1(At(st.ocrWords, FirstIndex(fieldPath)))

Resolves(fieldPath) == ResolvesToWord(WordIndicesAt(st.mapping, fieldPath), st.ocrWords)

\* C8: after highlightField(path) resolved to a token on page p, the active
\* page is p: currentPageIndex = p - 1, a page of the document, and the image
\* shown is that page's image.
C8_ActivePageIsTokenPage ==
  [][\A fieldPath \in HighlightPaths(st.appFields) :
       (highlightField(fieldPath) /\ Resolves(fieldPath))
         => LET p == PageOfFirst(fieldPath)
            IN  /\ st'.currentPageIndex = p - 1
                /\ p <= st'.totalPages
                /\ InRange(st'.imageUrls, p - 1)
                /\ st'.imageSrc = At(st'.imageUrls, p - 1)]_vars

\* the tokens of page p, in token order (a token without page number is on page 1)
TokensOfPage(p) == SelectSeq(st.ocrWords, LAMBDA w : PageOr1(w) = p)

\* the position of token g within the tokens of its page p
PositionOnPage(g, p) == Cardinality({k \in 0..(g - 1) : PageOr1(At(st.ocrWords, k)) = p})

\* the list the selected index refers to: the tokens of page p when the
\* document is multi-page, the whole token list otherwise
IndexedList(p) == IF st.isMultipage THEN TokensOfPage(p) ELSE st.ocrWords

\* the position in IndexedList(p) of the first token whose content and geometry
\* equal those of token g
FirstEqualPosition(g, p) ==
  LET list == IndexedList(p)
      word == At(st.ocrWords, g)
  IN  Min({k \in 0..(Len(list) - 1) :
             At(list, k).content = word.content /\ At(list, k).points = word.points})

\* a selection step of a highlight: the click itself when the token is on the
\* page shown, the delayed callback otherwise
SelectsNow(fieldPath) ==
  /\ highlightField(fieldPath)
  /\ Resolves(fieldPath)
  /\ PageOfFirst(fieldPath) - 1 = st.currentPageIndex

SelectsLater(i) == HighlightDelayDone(i) /\ mounted /\ Resolves(i.d.v)

\* C9 as stated: the index a highlight selects is the position of token g
\* within the tokens of its page p.
C9_SelectsPositionOnPage ==
  [][/\ \A fieldPath \in HighlightPaths(st.appFields) :
          SelectsNow(fieldPath) =>
            st'.selectedIndex = PositionOnPage(FirstIndex(fieldPath), PageOfFirst(fieldPath))
     /\ \A i \in BagToSet(tasks) :
          SelectsLater(i) =>
            st'.selectedIndex = PositionOnPage(FirstIndex(i.d.v), i.p)]_vars

\* C9 amended: the index a highlight selects is the position, in the list the
\* index refers to (the tokens of page p for a multi-page document, the whole
\* token list otherwise), of the first token whose content and geometry equal
\* those of token g.
C9_SelectsFirstEqualToken ==
  [][/\ \A fieldPath \in HighlightPaths(st.appFields) :
          SelectsNow(fieldPath) =>
            st'.selectedIndex = FirstEqualPosition(FirstIndex(fieldPath), PageOfFirst(fieldPath))
     /\ \A i \in BagToSet(tasks) :
          SelectsLater(i) =>
            st'.selectedIndex = FirstEqualPosition(FirstIndex(i.d.v), i.p)]_vars

\* the scenario of C9: tokens 0-4 on page 1, 5-7 on page 2, mapping [6]; clicked
\* while page 1 was shown, the highlight has switched to page 2 and its delayed
\* selection for page 2 is pending
C9_Witness ==
  /\ mounted
  /\ st.ocrWords = ScenarioWords
  /\ st.isMultipage
  /\ st.mapping = JObj([k \in {"invoice_number"} |-> Nums(<<6>>)])
  /\ st.currentPageIndex = 1
  /\ st.imageSrc = PageUrl(2)
  /\ \E i \in BagToSet(tasks) :
       i.k = "highlight" /\ i.p = 2 /\ i.d = JStr(<<"invoice_number">>) /\ ENABLED SelectsLater(i)

\* the indices of the tokens whose normalized content contains the normalized value
MatchingTokens(value, ocrWords) ==
  LET hit(i) == Includes(Normalize(At(ocrWords, i).content), Normalize(value))
      upto[n \in 0..Len(ocrWords)] ==
        IF n = 0 THEN <<>>
        ELSE IF hit(n - 1) THEN Append(upto[n - 1], n - 1) ELSE upto[n - 1]
  IN  upto[Len(ocrWords)]

\* C10: when the extraction is completed and the backend supplies no mapping,
\* every leaf field with a text value is mapped to exactly the tokens whose
\* normalized content contains the field's normalized current value.
C10_FallbackMatches ==
  (mounted /\ ~st.loading /\ st.extractionStatus = "completed" /\ ~srv.hasMapping
     /\ st.appFields = srv.fields /\ st.extractedInfo = srv.info)
    => \A field \in Range(st.appFields) :
         (IsStringRendered(field) /\ Prop(st.extractedInfo, field.name).t = "string")
           => Prop(st.mapping, field.name) =
                Nums(MatchingTokens(Prop(st.extractedInfo, field.name).v, st.ocrWords))

\* C11: whenever the token request, a request for the schema / extraction state
\* or a job start request (extraction or OCR) fails, extractionStatus is
\* "failed" afterwards; and a retry from "failed" re-enters "processing".
C11_FailuresSurfaceAsFailed ==
  [][/\ \A i \in BagToSet(tasks) :
          (mounted /\ (\/ MountOcrAnswered(i, "error")
                       \/ MountFetchAnswered(i, ErrorResponse)
                       \/ TickFetchAnswered(i, ErrorResponse)
                       \/ StartExtractionAnswered(i, "error")
                       \/ StartExtractionAnswered(i, "refused")
                       \/ RerunOcrAnswered(i, "error")))
            => st'.extractionStatus = "failed"
     /\ (StartExtractionClick /\ st.extractionStatus = "failed")
          => st'.extractionStatus = "processing"]_vars

\* the interval callback counts its tick before it asks for the status
\* (startPolling) or only after checkExtractionStatus returned (rerunOcr)
CountsAtFire(kind) == kind = "poll"

\* C12: a tick whose status request fails leaves extractionStatus and the
\* liveness of its timer as they were, and is counted in pollingAttemptCount
\* (when the tick fired or when the failure is handled), whichever of
\* startPolling and rerunOcr started the timer.
C12_FailedTickCounted ==
  [][\A i \in BagToSet(tasks) :
       (mounted /\ TickStatusAnswered(i, "error"))
         => /\ st'.extractionStatus = st.extractionStatus
            /\ timers'[i.tid].live = timers[i.tid].live
            /\ CountsAtFire(i.k) \/ st'.pollingAttemptCount = st.pollingAttemptCount + 1]_vars

\* a change of a leaf value in edit mode: a string field, a sub-field of a map,
\* an item of a simple list, a cell of a table row
LeafChange ==
  EidUpdateField \/ EidUpdateMapField \/ EidUpdateListItem \/ EidUpdateListItemProperty

\* C13: after every change of a leaf value in edit mode the parent's live
\* extractedInfo equals the edit buffer.
C13_LeafChangePropagates == [][LeafChange => st'.extractedInfo = eid'.editedInfo]_vars

\* C14: when the view holds tokens and the handling of a tick of the timer
\* rerunOcr started, which observed the OCR job completed, finishes, ocrWords
\* is the token list the backend now stores and mapping is the mapping it stores.
C14_RerunReplacesTokens ==
  [][\A i \in BagToSet(tasks) :
       (/\ mounted
        /\ i.k = "rerun"
        /\ st.ocrWords # <<>>
        /\ srv.job = "ocr"
        /\ srv.status = "completed"
        /\ TickFetchAnswered(i, ExtractResponse))
         => /\ st'.ocrWords = srv.words
            /\ st'.mapping = srv.mapping]_vars

\* the geometry of a token is absent or has fewer than 4 vertices
Degenerate(word) == ~word.points.def \/ Len(word.points.pts) < 4

\* the tokens of the page shown, in the order of their boxes
ShownWords == BoxPageWords(st.ocrWords, st.isMultipage, st.currentPageIndex)

\* box b is the bounding rectangle of the vertices pts
Bounds(b, pts) ==
  /\ \A k \in 1..Len(pts) :
       /\ b.left <= pts[k][1] /\ pts[k][1] <= b.left + b.width
       /\ b.top <= pts[k][2] /\ pts[k][2] <= b.top + b.height
  /\ \E k \in 1..Len(pts) : pts[k][1] = b.left
  /\ \E k \in 1..Len(pts) : pts[k][1] = b.left + b.width
  /\ \E k \in 1..Len(pts) : pts[k][2] = b.top
  /\ \E k \in 1..Len(pts) : pts[k][2] = b.top + b.height

\* C15: the boxes are one per token of the page shown, in order, each with the
\* token's position on the page as id and its content as text; a token whose
\* geometry is absent or has fewer than 4 vertices has the box
\* {top: 0, left: 0, width: 0, height: 0}, and every other token the bounding
\* rectangle of its own vertices.
C15_DegenerateGeometryZeroBox ==
  /\ Len(st.boundingBoxes) = Len(ShownWords)
  /\ \A k \in 1..Len(ShownWords) :
       LET w == ShownWords[k]
           b == st.boundingBoxes[k]
       IN  /\ b.id = k - 1
           /\ b.text = w.content
           /\ Degenerate(w) => (b.top = 0 /\ b.left = 0 /\ b.width = 0 /\ b.height = 0)
           /\ ~Degenerate(w) => Bounds(b, w.points.pts)

\* a page is shown on which a token of three vertices comes before a token
\* with a drawable geometry, and the boxes of the page have been computed
C15_Witness ==
  /\ mounted
  /\ ~st.loading
  /\ Len(st.boundingBoxes) = 2
  /\ Len(ShownWords) = 2
  /\ Len(ShownWords[1].points.pts) = 3
  /\ ~Degenerate(ShownWords[2])
  /\ st.boundingBoxes[2].width > 0

\* the index-set the backend's mapping holds for row j, column c of list f
FormerEntry(f, j, c) ==
  LET rows == Prop(srv.mapping, f)
      row == IF rows.t = "array" /\ InRange(rows.v, j) THEN At(rows.v, j) ELSE JUndef
  IN  Prop(row, c)

\* rows of f were removed from the edit buffer
RowsRemoved(f) ==
  /\ eid.editMode
  /\ Len(ListData(eid.editedInfo, f)) < Len(ListData(srv.info, f))

\* this step highlights the token of the index-set entry
HighlightsThrough(entry) ==
  IF ~ResolvesToWord(entry, st.ocrWords)
  THEN st'.selectedIndex = st.selectedIndex /\ st'.currentPageIndex = st.currentPageIndex
  ELSE LET p == PageOr1(At(st.ocrWords, entry.v[1].v))
       IN  /\ st'.currentPageIndex = p - 1
           /\ IF p - 1 # st.currentPageIndex
              THEN \E i \in BagToSet(tasks') : i.k = "highlightCell" /\ i.d = entry /\ i.p = p
              ELSE st'.selectedIndex = Select(st, highlightTableCellOnPage(st, entry, p)).selectedIndex

\* C16: removing a row of a list field in edit mode leaves the mapping as it
\* was, and a highlightCell on a row j of the shortened list resolves through
\* the mapping entry of the former row j (the entry the backend delivered for
\* row j), not through the entry of the row now displayed there.
C16_RemovalKeepsMappingRows ==
  [][/\ EidRemoveRow => st'.mapping = st.mapping
     /\ \A field \in {g \in Range(st.appFields) : IsTable(g)}, j \in 0..MaxRows, c \in {"c"} :
          (RowsRemoved(field.name) /\ highlightTableCell(field.name, j, c))
            => (st.mapping = srv.mapping /\ HighlightsThrough(FormerEntry(field.name, j, c)))]_vars

\* row 0 of l was removed, the row now first shows the value "c" of the former
\* row 1, and its cell selected token 1 of page 1, the token of former row 0
C16_Witness ==
  /\ mounted
  /\ RowsRemoved("l")
  /\ ListData(eid.editedInfo, "l") = << JObj([c \in {"c"} |-> JStr(<<"c">>)]) >>
  /\ st.mapping = srv.mapping
  /\ FormerEntry("l", 0, "c") = Nums(<<1>>)
  /\ st.currentPageIndex = 0
  /\ st.selectedIndex = 1

\* mapping[fieldName][rowIndex][columnName] of the mapping held by the view
CellEntry(fieldName, rowIndex, columnName) ==
  LET rows == Prop(st.mapping, fieldName)
      row == IF rows.t = "array" /\ InRange(rows.v, rowIndex) THEN At(rows.v, rowIndex) ELSE JUndef
  IN  Prop(row, columnName)

\* the cells highlightCell is called for
Cells ==
  {<<field.name, j, c>> : field \in {g \in Range(st.appFields) : IsTable(g)},
                          j \in 0..MaxRows, c \in {"c"}}

\* C20: highlightCell(fieldName, rowIndex, columnName) takes its index-set from
\* mapping[fieldName][rowIndex][columnName]. When the index-set is non-empty
\* the active page becomes the page p of the first index's token (a page of
\* the document, its image shown) and the token's position on page p is
\* selected, by the click itself when p is the page shown and by the delayed
\* callback after a page switch; when the field, row, column or index-set is
\* missing or empty neither the selection nor the active page changes. The
\* position is read as under C9: that of the first token of the indexed list
\* equal to the token in content and geometry.
C20_CellHighlightSelectsToken ==
  [][/\ \A cell \in Cells :
          highlightTableCell(cell[1], cell[2], cell[3]) =>
            LET entry == CellEntry(cell[1], cell[2], cell[3])
            IN  IF entry = JUndef \/ entry = Nums(<<>>)
                THEN /\ st'.selectedIndex = st.selectedIndex
                     /\ st'.currentPageIndex = st.currentPageIndex
                     /\ st'.imageSrc = st.imageSrc
                     /\ tasks' = tasks
                ELSE ResolvesToWord(entry, st.ocrWords) =>
                       LET g == entry.v[1].v
                           p == PageOr1(At(st.ocrWords, g))
                       IN  /\ st'.currentPageIndex = p - 1
                           /\ p <= st'.totalPages
                           /\ InRange(st'.imageUrls, p - 1)
                           /\ st'.imageSrc = At(st'.imageUrls, p - 1)
                           /\ IF p - 1 = st.currentPageIndex
                              THEN st'.selectedIndex = FirstEqualPosition(g, p)
                              ELSE \E i \in BagToSet(tasks') :
                                     i.k = "highlightCell" /\ i.d = entry /\ i.p = p
     /\ \A i \in BagToSet(tasks) :
          (HighlightCellDelayDone(i) /\ mounted /\ ResolvesToWord(i.d, st.ocrWords))
            => st'.selectedIndex = FirstEqualPosition(i.d.v[1].v, i.p)]_vars

\* a request that starts a job is still unanswered
StartInFlight == \E i \in BagToSet(tasks) : i.k \in {"startExtraction", "rerunOcr"}

\* the view started a job that the backend is still running
JobRunning == srv.job # "none" /\ srv.status = "processing"

\* C17: when a manual re-trigger (startExtraction, rerunOcr) races with a poll
\* tick in flight, polling stays alive and the race leaves no status that no
\* later tick corrects: while the view is mounted and the job it started is
\* running on the backend (no start request unanswered), a poll timer is live;
\* and a tick that completes leaves extractionStatus at the status the backend
\* reports.
C17_RaceKeepsPollingAlive ==
  [][/\ (mounted /\ JobRunning /\ ~StartInFlight)' => (LiveTimers # {})'
     /\ \A i \in BagToSet(tasks) :
          (mounted /\ (\/ TickStatusAnswered(i, "processing") /\ srv.status = "processing"
                       \/ TickStatusAnswered(i, "failed") /\ srv.status = "failed"
                       \/ TickFetchAnswered(i, ExtractResponse)))
            => st'.extractionStatus = srv.status]_vars

\* C18: when a poll tick observes status 'failed', extractionStatus becomes
\* 'failed', the timer whose tick it was is stopped, and no timer is left to
\* fire a further tick (until a retry starts polling again).
C18_FailedStopsPolling ==
  [][\A i \in BagToSet(tasks) :
       (mounted /\ TickStatusAnswered(i, "failed"))
         => /\ st'.extractionStatus = "failed"
            /\ ~timers'[i.tid].live
            /\ LiveTimers' = {}]_vars

\* C19: when a poll tick observes a status that is neither 'completed' nor
\* 'failed', extractionStatus is 'processing' after the tick, the timer that
\* ticked (within its attempt budget) stays live, and pollingAttemptCount is
\* incremented exactly once for the tick (when it fires for a startPolling
\* timer, when checkExtractionStatus returned for a rerunOcr timer); each start
\* (startExtraction, rerunOcr) sets the count to 0.
C19_ProcessingTickCounts ==
  [][/\ \A t \in TimerIds :
          (mounted /\ Tick(t)) =>
            st'.pollingAttemptCount =
              st.pollingAttemptCount + (IF CountsAtFire(timers[t].kind) THEN 1 ELSE 0)
     /\ \A i \in BagToSet(tasks) :
          /\ (mounted /\ TickStatusAnswered(i, "processing")) =>
                /\ st'.extractionStatus = "processing"
                /\ (timers[i.tid].live /\ timers[i.tid].n < MAX_POLLING_ATTEMPTS)
                     => timers'[i.tid].live
                /\ st'.pollingAttemptCount =
                     st.pollingAttemptCount + (IF CountsAtFire(i.k) THEN 0 ELSE 1)
          /\ (mounted /\ RerunOcrAnswered(i, "ok")) => st'.pollingAttemptCount = 0
     /\ StartExtractionClick => st'.pollingAttemptCount = 0]_vars

\* highlightField(fieldPath) / highlightCell(cell) targets a token of another
\* page than the one displayed
FieldSwitchesPage(fieldPath) ==
  /\ highlightField(fieldPath)
  /\ Resolves(fieldPath)
  /\ PageOfFirst(fieldPath) - 1 # st.currentPageIndex

CellSwitchesPage(cell) ==
  /\ highlightTableCell(cell[1], cell[2], cell[3])
  /\ ResolvesToWord(CellEntry(cell[1], cell[2], cell[3]), st.ocrWords)
  /\ PageOr1(At(st.ocrWords, CellEntry(cell[1], cell[2], cell[3]).v[1].v)) - 1
       # st.currentPageIndex

\* C21: when highlightField or highlightCell targets a token on a page other
\* than the displayed one, the selection is cleared at the page switch (no
\* index is selected until the delayed selection), and the new selection is
\* left to the delayed callback the step schedules.
C21_SwitchClearsSelection ==
  [][/\ \A fieldPath \in HighlightPaths(st.appFields) :
          FieldSwitchesPage(fieldPath)
            => /\ st'.selectedIndex = Null
               /\ \E i \in BagToSet(tasks') : i.k = "highlight" /\ i.d = JStr(fieldPath)
     /\ \A cell \in Cells :
          CellSwitchesPage(cell)
            => /\ st'.selectedIndex = Null
               /\ \E i \in BagToSet(tasks') : i.k = "highlightCell"]_vars

\* the rows of table l in the edit buffer
BufferRows == ListData(eid.editedInfo, "l")

\* the item template of l with every column empty
EmptyRow == JObj([c \in {"c", "d"} |-> JStr(<<>>)])

\* C22: in edit mode, adding a row to a list-of-map field yields the previous
\* sequence followed by one item with every column of the template set to the
\* empty string; removing row i yields the previous sequence without its
\* i-th item, the others unchanged and in order; whatever cell edits came
\* before in the edit session.
C22_AddAppendsRemoveSplices ==
  [][/\ EidAddRowUpTo(MaxTableRows)
          => /\ Len(BufferRows') = Len(BufferRows) + 1
             /\ \A k \in 1..Len(BufferRows) : BufferRows'[k] = BufferRows[k]
             /\ BufferRows'[Len(BufferRows) + 1] = EmptyRow
     /\ \A i \in 0..(MaxTableRows - 1) :
          EidRemoveRowAt("l", i)
            => /\ Len(BufferRows') = Len(BufferRows) - 1
               /\ \A k \in 1..i : BufferRows'[k] = BufferRows[k]
               /\ \A k \in (i + 1)..(Len(BufferRows) - 1) : BufferRows'[k] = BufferRows[k + 1]]_vars

\* a cell of row 0 was edited and then a row added: the buffer holds the
\* edited row followed by the empty row, and the parent holds the same (a cell
\* edit alone does not reach the parent)
C22_Witness ==
  /\ mounted
  /\ eid.editMode
  /\ BufferRows = << JObj([c \in {"c", "d"} |-> JStr(IF c = "c" THEN <<"z">> ELSE <<"b">>)]),
                     EmptyRow >>
  /\ st.extractedInfo = eid.editedInfo

\* C23: when an extraction job is observed completed, fetchExtractionInfo
\* replaces extractedInfo and mapping with the fetched ones and leaves the
\* tokens, the active page and the page images as they were.
C23_CompletedExtractionFrame ==
  [][\A i \in BagToSet(tasks) :
       (/\ mounted
        /\ srv.status = "completed" /\ srv.job # "ocr" /\ srv.hasMapping
        /\ \/ TickFetchAnswered(i, ExtractResponse)
           \/ MountFetchAnswered(i, ExtractResponse))
         => /\ st'.extractedInfo = srv.info
            /\ st'.mapping = srv.mapping
            /\ st'.ocrWords = st.ocrWords
            /\ st'.currentPageIndex = st.currentPageIndex
            /\ st'.imageSrc = st.imageSrc
            /\ st'.imageUrls = st.imageUrls
            /\ st'.totalPages = st.totalPages]_vars

\* the job the view started was observed completed while page 2 was shown:
\* values and mapping are the backend's, page 2 is still shown
C23_Witness ==
  /\ mounted
  /\ srv.job = "extraction"
  /\ st.extractionStatus = "completed"
  /\ st.extractedInfo = srv.info
  /\ st.mapping = srv.mapping
  /\ st.ocrWords = srv.words
  /\ st.currentPageIndex = 1
  /\ st.imageSrc = PageUrl(2)
  /\ tasks = EmptyBag

\* the token lists a and b have the same tokens but for their contents: equal
\* length, and page and geometry equal index by index
SameTokensButContent(a, b) ==
  /\ Len(a) = Len(b)
  /\ \A k \in 1..Len(a) : a[k].page = b[k].page /\ a[k].points = b[k].points

\* C24: across token-text edits, saves and cancels in OcrResultEditor the
\* number and order of the tokens and every token's page and geometry stay as
\* loaded (in the buffer, in ocrWords and in what the backend stores): only
\* contents change; and a save passes exactly the edited buffer to ocrWords
\* and to the save request.
C24_TokenEditsKeepShape ==
  [][/\ (mounted /\ st.ocrWords # <<>>)'
          => /\ SameTokensButContent(st.ocrWords, EditDoc.words)'
             /\ SameTokensButContent(ore.editedResults, EditDoc.words)'
             /\ SameTokensButContent(srv.words, EditDoc.words)'
     /\ OreSave
          => /\ st'.ocrWords = ore.editedResults
             /\ \E i \in BagToSet(tasks') :
                  i.k = "saveOcrEdit" /\ i.d = JArr(ore.editedResults)]_vars

\* an edited text was saved and stored: token 0 reads "z" in ocrWords and on
\* the backend, with the page and geometry it was loaded with
C24_Witness ==
  /\ mounted
  /\ Len(st.ocrWords) = Len(EditDoc.words)
  /\ st.ocrWords[1].content = <<"z">>
  /\ srv.words = st.ocrWords
  /\ st.ocrWords[1].points = EditDoc.words[1].points
  /\ ~ore.editMode

\* the indices in ocrWords of the tokens whose boxes are drawn, in box order
DrawnTokens ==
  IF ~st.isMultipage THEN [k \in 1..Len(st.ocrWords) |-> k - 1]
  ELSE SelectSeq([k \in 1..Len(st.ocrWords) |-> k - 1],
                 LAMBDA g : At(st.ocrWords, g).page = st.currentPageIndex + 1)

\* C25: whenever an index is selected and the token editor is shown, the box
\* highlighted in the image pane (the box at position selectedIndex of the
\* page displayed) and the row highlighted in the editor (row selectedIndex of
\* the token list) designate the same token.
C25_BoxAndRowSameToken ==
  (mounted /\ OreVisible(st) /\ st.selectedIndex # Null)
    => /\ InRange(DrawnTokens, st.selectedIndex)
       /\ InRange(ore.editedResults, st.selectedIndex)
       /\ At(DrawnTokens, st.selectedIndex) = st.selectedIndex

\* the tokens that belong to the page shown in view state s: those whose page
\* is the active page, or all tokens when the document is a single image
TokensOfActivePage(s) ==
  SelectSeq(s.ocrWords, LAMBDA w : ~s.isMultipage \/ w.page = s.currentPageIndex + 1)

\* the boxes of view state s are, in token order, the boxes of exactly the
\* tokens of the active page, each with its position on the page as id
BoxesAreOfActivePage(s) ==
  LET shown == TokensOfActivePage(s)
  IN  /\ Len(s.boundingBoxes) = Len(shown)
      /\ \A k \in 1..Len(shown) : s.boundingBoxes[k] = BoxOf(shown[k], k - 1)

\* C26: after every step that changes the active page (previous / next page or
\* a highlight that switches page) or replaces the tokens, once the effects of
\* the step have run, the boxes are in token order the boxes of exactly the
\* tokens whose page is the active page (all tokens for a single image), with
\* the page-relative position as id.
C26_BoxesFollowPageAndTokens ==
  [][(st'.currentPageIndex # st.currentPageIndex \/ st'.ocrWords # st.ocrWords)
       => BoxesAreOfActivePage(st')]_vars

\* an edited token of page 2 was saved, and a highlight then switched to
\* page 2, whose one box carries the edited text; the delayed selection of
\* the highlight is still pending
C26_Witness ==
  /\ mounted
  /\ st.currentPageIndex = 1
  /\ Len(st.ocrWords) = 3
  /\ st.ocrWords[3].content = <<"z">>
  /\ Len(st.boundingBoxes) = 1
  /\ st.boundingBoxes[1].text = <<"z">>
  /\ \E i \in BagToSet(tasks) : i.k = "highlight" /\ i.p = 2

\* C27: in every state the selected index is null or a position of the boxes
\* of the page shown, and the active page index is one of the document's
\* pages, whatever the interleaving of highlights (with their delayed
\* selection), previous / next page, box clicks and editor row clicks.
C27_SelectionAndPageInRange ==
  mounted =>
    /\ st.selectedIndex = Null \/ InRange(st.boundingBoxes, st.selectedIndex)
    /\ 0 <= st.currentPageIndex
    /\ st.currentPageIndex < st.totalPages

\* C28: whenever the view is mounted with extractionStatus 'processing' and
\* fewer than MAX_POLLING_ATTEMPTS attempts counted (and no request that starts
\* a job is still unanswered), a poll timer is live - also right after the
\* initial fetch of the mount reported an unfinished job, and after a tick
\* whose result fetch reported a status other than completed.
C28_ProcessingHasLiveTimer ==
  (/\ mounted
   /\ st.extractionStatus = "processing"
   /\ st.pollingAttemptCount < MAX_POLLING_ATTEMPTS
   /\ ~StartInFlight)
    => LiveTimers # {}

\* no delayed selection of a highlight is pending
DelaysFired == \A i \in BagToSet(tasks) : i.k \notin {"highlight", "highlightCell"}

\* C29: when highlightField is invoked again before the delayed selection of
\* the invocation before it has fired, then once all delayed selections have
\* fired the active page and the selected index are those of the latest
\* invocation: the page of its token, and the position highlightWordsOnCurrentPage
\* computes for it; an earlier invocation's delayed selection never overrides it.
C29_LatestHighlightWins ==
  (mounted /\ log.last # JUndef /\ DelaysFired) =>
    LET fieldPath == log.last.v
        targetWord == At(st.ocrWords, WordIndicesAt(st.mapping, fieldPath).v[1].v)
        targetPage == PageOr1(targetWord)
    IN  /\ st.currentPageIndex = targetPage - 1
        /\ st.selectedIndex = highlightWordsOnCurrentPage(st, fieldPath, targetPage)

\* C30: for every page p of a multi-page document, the token sequence that
\* highlightWordsOnCurrentPage and highlightTableCellOnPage take as page p is
\* the token sequence updateBoundingBoxesForCurrentPage makes the boxes of
\* page p from, tokens without page number included, so that a position
\* computed by a highlight designates the box of the same token.
C30_HighlightAndBoxesSamePage ==
  (mounted /\ st.isMultipage /\ Len(st.ocrWords) > 0) =>
    \A p \in 1..st.totalPages :
      HighlightPageWords(st.ocrWords, st.isMultipage, p)
        = BoxPageWords(st.ocrWords, st.isMultipage, p - 1)

====
